---- MODULE Spec2Model ----
(***************************************************************************)
(* A model of the Jarvis agent: the tool-call extractor                    *)
(* (Agent.extract_tool_calls), the search/replace file patcher             *)
(* (PatchHandler.apply_file_patch), the context-patch session              *)
(* (jarvis_code_agent/patch.py apply_patch) and the agent run-loop         *)
(* (Agent.run) on top of the Oyi model transport.                          *)
(*                                                                         *)
(* Each part has its own specification over the shared variables; the      *)
(* variables of the other parts stay at their idle values.                 *)
(***************************************************************************)
EXTENDS Integers, Sequences, FiniteSets, TLC

VARIABLES
    \* ---- extractor (Agent.extract_tool_calls as a pure function)
    xpc,        \* "input" before the call, "done" after it
    xsrc,       \* how the input text was built (free text, or a rendered block)
    xtext,      \* the response text, a sequence of lines
    xres,       \* what extract_tool_calls returned or raised
    \* ---- file patcher (PatchHandler.apply_file_patch on one file path)
    fworld,     \* the path's state: on disk, in the index, in HEAD, its directory
    fpatches,   \* the patch list handed to apply_file_patch
    fcalls,     \* how many times apply_file_patch was called with that list
    fpre,       \* fworld at the start of the last call
    fres,       \* the last call's outcome: "none", "true", "false", "raise"
    \* ---- agent run-loop (Agent.run on an OyiModel transport)
    pc,                 \* where Agent.run stands
    is_sub_agent,       \* Agent.is_sub_agent
    keep_history,       \* run's keep_history argument
    file_list,          \* number of files passed to run
    prompt,             \* Agent.prompt: [text, reminders]
    conversation_turns, \* Agent.conversation_turns
    model,              \* the transport: messages, conversation, files, first_chat,
                        \* system_message
    purpose,            \* which _call_model is in progress: main, analysis, summary
    sleep_time,         \* _call_model's sleep_time
    response,           \* current_response (the name of a response text)
    result,             \* what run returns
    last_request,       \* the payload of the last chat request
    cycles,             \* iterations of the run-loop so far
    fails,              \* failed chat attempts so far
    log,                \* what happened: for the properties only
    \* ---- context-patch session (jarvis_code_agent/patch.py apply_patch)
    spc,        \* where apply_patch stands
    confirm,    \* what is_confirm_before_apply_patch() answers
    blocks,     \* the <PATCH> blocks of the response, in order
    repo,       \* the repository: head, index, work (path -> content), commits
    base,       \* repo when apply_patch was called
    spatches,   \* the entries of the patches dict still to be handled
    start_hash, \* the revision recorded at line 77
    diff,       \* what get_diff returned: "none", "empty", "changes", "error"
    final_ret,  \* the summary built at lines 89-109
    returned,   \* what apply_patch returned
    slog,       \* what happened: for the properties only
    \* ---- plan application (PatchHandler.handle_patch_application)
    ppc,        \* where handle_patch_application stands
    pworlds,    \* file path -> the path's state (as fworld)
    pbase,      \* pworlds when handle_patch_application was called
    pplan,      \* the files of structed_plan still to be handled
    pstat,      \* file path -> "pending", "applied", "missed", "failed"
    pwant,      \* file path -> the content its accepted patches produced
    pretries,   \* how many times the user chose to retry
    pres,       \* what handle_patch_application returned: "none", "true", "false", "raise"
    \* ---- one call of Agent._call_model
    cpc,        \* "call" while _call_model runs, "returned" after it
    csleep,     \* _call_model's sleep_time
    cwaits,     \* the waits so far: what each followed and how long it was
    cret,       \* what _call_model returned
    cwsleep,    \* the wait of the while_success call in progress
    \* ---- the turn counter of the run-loop
    tpc,        \* "start", "cycle" (top of the loop), "model" (request made), "done"
    tturns,     \* self.conversation_turns
    tprompt,    \* self.prompt
    tsince,     \* cycles since run started or the counter was last reset
    tcycles,    \* cycles of this run
    treminded,  \* whether the latest cycle appended the reminder
    \* ---- one call of CodeModifyTool.execute
    etool,      \* a record: pc ("args", "call", "done"), args (the args dict: key ->
                \* value, "missing" for a key that is not there), handler (what
                \* handle_patch_application does with this plan once it runs), ran
                \* (whether it ran), res (what execute returned: [success, error])
    \* ---- one call of _parse_file_selection
    sel         \* a record: pc ("call", "returned"), input_str (a sequence of
                \* characters), max_index, ret (the returned list)

xvars == <<xpc, xsrc, xtext, xres>>
fvars == <<fworld, fpatches, fcalls, fpre, fres>>
avars == <<pc, is_sub_agent, keep_history, file_list, prompt, conversation_turns, model,
           purpose, sleep_time, response, result, last_request, cycles, fails, log>>

svars == <<spc, confirm, blocks, repo, base, spatches, start_hash, diff, final_ret,
           returned, slog>>

pvars == <<ppc, pworlds, pbase, pplan, pstat, pwant, pretries, pres>>

cvars == <<cpc, csleep, cwaits, cret, cwsleep>>

tvars == <<tpc, tturns, tprompt, tsince, tcycles, treminded>>
evars == <<etool>>
lvars == <<sel>>

vars == <<xvars, fvars, avars, svars, pvars, cvars, tvars, evars, lvars>>

----------------------------------------------------------------------------
(***************************************************************************)
(* Lines of a response.  content.split('\n') gives the lines; a line is    *)
(* modelled by what the extractor and the YAML loader can see of it:       *)
(*   mark  which markers the line contains ('<START_TOOL_CALL>' in line,   *)
(*         '<END_TOOL_CALL>' in line),                                     *)
(*   ind   its indentation level (0 = column 0, 1 = four spaces),          *)
(*   key   the mapping key before ': ' ("" when the line has none),        *)
(*   val   the scalar after the key, or the plain text of the line.        *)
(* "" , "hello", "name: t1", "arguments:", "    p: v" are such lines.      *)
(***************************************************************************)
\* a path on disk, in the index or in a commit: missing, or a file with its text
Absent  == [ex |-> FALSE, c |-> <<>>]
File(c) == [ex |-> TRUE,  c |-> c]

(***************************************************************************)
(* The values of a part's variables while another part is being run.       *)
(***************************************************************************)
\* an extractor input that was not rendered from a call
FreeSource == [shape |-> "free", variant |-> "", name |-> "", args |-> <<>>,
               before |-> <<>>, after |-> <<>>]
\* extract_tool_calls has not been called
NotRun == [kind |-> "none", calls |-> <<>>, err |-> ""]

XIdle == xpc = "idle" /\ xsrc = FreeSource /\ xtext = <<>> /\ xres = NotRun
FIdle == /\ fworld = [kind |-> "root", head |-> Absent, index |-> Absent,
                      disk |-> Absent, direx |-> TRUE]
         /\ fpatches = <<>> /\ fcalls = 0 /\ fpre = fworld /\ fres = "none"

\* OyiModel.__init__: the transport after construction
NewModel == [messages |-> <<>>, conversation |-> FALSE, files |-> 0, first_chat |-> TRUE,
             system_message |-> ""]
NoRequest == [content |-> "", system |-> "", contentFiles |-> 0, reminders |-> 0]
NoLog == [uploaded |-> 0, empty_read |-> FALSE, answer |-> "none", post_calls |-> {},
          tools |-> 0, summarized |-> "no", before_summary |-> 0, events |-> <<>>,
          cleanup_deletes |-> 0]

AIdle == /\ pc = "idle" /\ is_sub_agent = FALSE /\ keep_history = FALSE /\ file_list = 0
         /\ prompt = [text |-> "", reminders |-> 0] /\ conversation_turns = 0
         /\ model = NewModel /\ purpose = "none" /\ sleep_time = 0 /\ response = "none"
         /\ result = "none" /\ last_request = NoRequest /\ cycles = 0 /\ fails = 0
         /\ log = NoLog

Paths == {"t.py", "d/n.py", "n.py"}

NoTree == [p \in Paths |-> "absent"]
NoRepo == [head |-> NoTree, index |-> NoTree, work |-> NoTree, commits |-> <<>>]
NoSummary == [kind |-> "none", commits |-> <<>>]
NoSessionLog == [handled |-> <<>>, asked |-> 0, accepted |-> "none", commit_ok |-> "none",
                 reply_asked |-> 0, reply_use |-> "none"]

SIdle == /\ spc = "idle" /\ confirm = FALSE /\ blocks = <<>> /\ repo = NoRepo
         /\ base = NoRepo /\ spatches = <<>> /\ start_hash = <<>> /\ diff = "none"
         /\ final_ret = NoSummary /\ returned = NoSummary /\ slog = NoSessionLog

Files == {"f1", "f2"}

PIdle == /\ ppc = "idle" /\ pworlds = <<>> /\ pbase = <<>> /\ pplan = <<>>
         /\ pstat = <<>> /\ pwant = <<>> /\ pretries = 0 /\ pres = "none"

CIdle == cpc = "idle" /\ csleep = 0 /\ cwaits = <<>> /\ cret = "none" /\ cwsleep = 0

TIdle == /\ tpc = "idle" /\ tturns = 0 /\ tprompt = <<>> /\ tsince = 0 /\ tcycles = 0
         /\ treminded = FALSE
NoResult == [success |-> FALSE, error |-> "none"]
EIdle == etool = [pc |-> "idle", args |-> <<>>, handler |-> "none", ran |-> FALSE,
                  res |-> NoResult]
LIdle == sel = [pc |-> "idle", input_str |-> <<>>, max_index |-> 0, ret |-> <<>>]

----------------------------------------------------------------------------
TextLine(ind, key, val) == [mark |-> "none", ind |-> ind, key |-> key, val |-> val]
MarkLine(mark) == [mark |-> mark, ind |-> 0, key |-> "", val |-> ""]

StartLine == MarkLine("start")      \* "<START_TOOL_CALL>"
EndLine   == MarkLine("end")        \* "<END_TOOL_CALL>"
BothLine  == MarkLine("both")       \* "<START_TOOL_CALL> ... <END_TOOL_CALL>" on one line
BlankLine == TextLine(0, "", "")    \* ""
ProseLine == TextLine(0, "", "hello")

HasStart(line) == line.mark \in {"start", "both"}
HasEnd(line)   == line.mark \in {"end", "both"}
IsBlank(line)  == line.key = "" /\ line.val = ""
IsProse(line)  == line.key = "" /\ line.val # ""

----------------------------------------------------------------------------
(***************************************************************************)
(* yaml.safe_load on the joined body lines, for block mappings of at most  *)
(* two levels, plain scalars and blank lines.  A YAML value is             *)
(*   [t |-> "null"]            None                                        *)
(*   [t |-> "str", s |-> ws]   a string, ws its words                      *)
(*   [t |-> "map", m |-> ps]   a dict, ps its <<key, value>> pairs         *)
(*   [t |-> "error"]           yaml.YAMLError                              *)
(***************************************************************************)
YNull    == [t |-> "null",  s |-> <<>>, m |-> {}]
YStr(ws) == [t |-> "str",   s |-> ws,   m |-> {}]
YMap(ps) == [t |-> "map",   s |-> <<>>, m |-> ps]
YError   == [t |-> "error", s |-> <<>>, m |-> {}]

Has(ps, k) == \E e \in ps : e[1] = k
Get(ps, k) == (CHOOSE e \in ps : e[1] = k)[2]
\* a later entry for the same key replaces the earlier one
Put(ps, k, v) == {e \in ps : e[1] # k} \cup {<<k, v>>}

ScalarOf(val) == IF val = "" THEN YNull ELSE YStr(<<val>>)

\* the loader before the first line
YamlStart == [mode |-> "empty", top |-> {}, last |-> "", open |-> FALSE, words |-> <<>>]

\* one more line of the document
YamlLine(st, line) ==
    IF st.mode = "error" \/ IsBlank(line) THEN st
    ELSE IF st.mode = "empty" THEN
        IF IsProse(line)
        THEN [st EXCEPT !.mode = "scalar", !.words = <<line.val>>]
        ELSE [st EXCEPT !.mode = IF line.ind = 0 THEN "top0" ELSE "top1",
                        !.top = {<<line.key, ScalarOf(line.val)>>},
                        !.last = line.key,
                        !.open = (line.val = "")]
    ELSE IF st.mode = "scalar" THEN
        \* a plain scalar goes on over the next lines; "key: ..." inside it is
        \* "mapping values are not allowed here"
        IF IsProse(line)
        THEN [st EXCEPT !.words = Append(st.words, line.val)]
        ELSE [st EXCEPT !.mode = "error"]
    ELSE IF st.mode = "top1" THEN
        \* the document is a mapping that starts indented: a line at column 0 ends it
        IF ~IsProse(line) /\ line.ind = 1
        THEN [st EXCEPT !.top = Put(st.top, line.key, ScalarOf(line.val))]
        ELSE [st EXCEPT !.mode = "error"]
    ELSE \* "top0": a mapping at column 0
        IF IsProse(line) THEN [st EXCEPT !.mode = "error"]
        ELSE IF line.ind = 0
        THEN [st EXCEPT !.top = Put(st.top, line.key, ScalarOf(line.val)),
                        !.last = line.key,
                        !.open = (line.val = "")]
        ELSE IF st.open
        THEN LET cur == Get(st.top, st.last)
                 nested == IF cur.t = "map" THEN cur.m ELSE {}
             IN [st EXCEPT !.top = Put(st.top, st.last,
                                       YMap(Put(nested, line.key, ScalarOf(line.val))))]
        ELSE [st EXCEPT !.mode = "error"]

RECURSIVE YamlFold(_, _, _)
YamlFold(st, lines, i) ==
    IF i > Len(lines) THEN st ELSE YamlFold(YamlLine(st, lines[i]), lines, i + 1)

YamlSafeLoad(lines) ==
    LET st == YamlFold(YamlStart, lines, 1)
    IN CASE st.mode = "empty"  -> YNull
         [] st.mode = "scalar" -> YStr(st.words)
         [] st.mode = "error"  -> YError
         [] OTHER              -> YMap(st.top)

\* 'word' in s for a Python str: substring containment over the words of the model
StrContains(ws, word) == \E i \in 1..Len(ws) : ws[i] = word

----------------------------------------------------------------------------
(***************************************************************************)
(* Agent.extract_tool_calls.  The result is                                *)
(*   [kind |-> "calls", calls |-> <<...>>]   the returned list             *)
(*   [kind |-> "raise", err |-> e]           Exception(e) raised           *)
(***************************************************************************)
Returned(calls) == [kind |-> "calls", calls |-> calls, err |-> ""]
Raised(e)       == [kind |-> "raise", calls |-> <<>>, err |-> e]

ErrYaml    == "YAML parse error"                      \* agent.py:97
ErrMissing == "tool call error: missing fields"       \* agent.py:94 wrapped at :100
ErrType    == "tool call error: TypeError"            \* TypeError wrapped at :100

ParseToolCallTruthy(body) ==
    LET data == YamlSafeLoad(body)
    IN CASE data.t = "error" -> Raised(ErrYaml)
         [] data.t = "null"  -> Raised(ErrType)
         [] data.t = "str"   -> Raised(ErrMissing)
         [] OTHER ->
                IF /\ Has(data.m, "name") /\ Has(data.m, "arguments")
                   /\ Get(data.m, "arguments").t # "null"
                THEN Returned(<<[name |-> Get(data.m, "name"),
                                 arguments |-> Get(data.m, "arguments")]>>)
                ELSE Raised(ErrMissing)

\* lines 80-100: the body of the END branch once a call body was collected
ParseToolCall(body) ==
    LET data == YamlSafeLoad(body)
    IN CASE data.t = "error" -> Raised(ErrYaml)
         [] data.t = "null"  -> Raised(ErrType)      \* "name" in None
         [] data.t = "str"   ->
                IF StrContains(data.s, "name") /\ StrContains(data.s, "arguments")
                THEN Raised(ErrType)                  \* str["name"]
                ELSE Raised(ErrMissing)
         [] OTHER ->
                IF Has(data.m, "name") /\ Has(data.m, "arguments")
                THEN Returned(<<[name |-> Get(data.m, "name"),
                                 arguments |-> Get(data.m, "arguments")]>>)
                ELSE Raised(ErrMissing)

ScanStart == [in_tool_call |-> FALSE, tool_call_lines |-> <<>>, out |-> Returned(<<>>),
              stopped |-> FALSE]

ScanLineNoGuard(st, line) ==
    IF st.stopped THEN st
    ELSE IF HasStart(line) THEN [st EXCEPT !.in_tool_call = TRUE]
    ELSE IF HasEnd(line) THEN
        IF st.tool_call_lines # <<>>
        THEN [st EXCEPT !.out = ParseToolCall(st.tool_call_lines), !.stopped = TRUE]
        ELSE [st EXCEPT !.in_tool_call = FALSE]
    ELSE [st EXCEPT !.tool_call_lines = Append(st.tool_call_lines, line)]

ScanLineKeepsScanning(st, line) ==
    IF HasStart(line) THEN [st EXCEPT !.in_tool_call = TRUE]
    ELSE IF HasEnd(line) THEN
        IF st.in_tool_call /\ st.tool_call_lines # <<>>
        THEN [st EXCEPT !.out = ParseToolCall(st.tool_call_lines)]
        ELSE [st EXCEPT !.in_tool_call = FALSE]
    ELSE IF st.in_tool_call
    THEN [st EXCEPT !.tool_call_lines = Append(st.tool_call_lines, line)]
    ELSE st

\* lines 74-105: one iteration of the loop over the lines
ScanLine(st, line) ==
    IF st.stopped THEN st
    ELSE IF HasStart(line) THEN [st EXCEPT !.in_tool_call = TRUE]
    ELSE IF HasEnd(line) THEN
        IF st.in_tool_call /\ st.tool_call_lines # <<>>
        THEN [st EXCEPT !.out = ParseToolCall(st.tool_call_lines), !.stopped = TRUE]
        ELSE [st EXCEPT !.in_tool_call = FALSE]
    ELSE IF st.in_tool_call
    THEN [st EXCEPT !.tool_call_lines = Append(st.tool_call_lines, line)]
    ELSE st

RECURSIVE ScanFold(_, _, _)
ScanFold(st, lines, i) ==
    IF i > Len(lines) THEN st ELSE ScanFold(ScanLine(st, lines[i]), lines, i + 1)

\* lines 65-107
extract_tool_calls(content) == ScanFold(ScanStart, content, 1).out

----------------------------------------------------------------------------
(***************************************************************************)
(* The extractor's inputs.                                                 *)
(***************************************************************************)
MaxLen == 4     \* free response texts have at most MaxLen lines
MaxPad == 2     \* lines of text before a rendered block

SeqsUpTo(S, n) == UNION {[1..k -> S] : k \in 0..n}

ToolNames == {"t1", "t2"}

LineAlphabet ==
    {StartLine, EndLine, BothLine, BlankLine, ProseLine,
     TextLine(0, "name", "t2"), TextLine(0, "arguments", ""), TextLine(1, "p", "v")}

\* argument lists of a well-formed call, as written: <<key, scalar>> entries
ArgLists ==
    {<<>>, <<<<"p", "v">>>>, <<<<"p", "v">>, <<"q", "w">>>>, <<<<"p", "v">>, <<"p", "w">>>>}

\* the lines "    key: scalar" of an argument list
RECURSIVE ArgLines(_)
ArgLines(args) ==
    IF args = <<>> THEN <<>>
    ELSE <<TextLine(1, args[1][1], args[1][2])>> \o ArgLines(Tail(args))

\* the mapping an argument list denotes: for each key the scalar of its last entry
\* (None when the list has no entry)
ArgValue(args) ==
    IF args = <<>> THEN YNull
    ELSE YMap({<<args[i][1], YStr(<<args[i][2]>>)>> :
                 i \in {i \in 1..Len(args) :
                          \A j \in (i + 1)..Len(args) : args[j][1] # args[i][1]}})

Variants == {"name first", "arguments first", "blank between"}

\* the body lines of a well-formed call block (the wire format of agent.py:393-398)
BodyLines(variant, name, args) ==
    CASE variant = "name first" ->
            <<TextLine(0, "name", name), TextLine(0, "arguments", "")>> \o ArgLines(args)
      [] variant = "arguments first" ->
            <<TextLine(0, "arguments", "")>> \o ArgLines(args) \o <<TextLine(0, "name", name)>>
      [] OTHER ->
            <<TextLine(0, "name", name), BlankLine, TextLine(0, "arguments", "")>>
                \o ArgLines(args)

BlockText(src) ==
    src.before \o <<StartLine>> \o BodyLines(src.variant, src.name, src.args)
        \o <<EndLine>> \o src.after

BlockSources ==
    [shape : {"block"}, variant : Variants, name : ToolNames, args : ArgLists,
     before : SeqsUpTo(LineAlphabet, MaxPad), after : SeqsUpTo(LineAlphabet, 1)]

\* a response with two complete blocks: the fields name the first block, and
\* `after` is the text between the blocks followed by the second block
SecondBlocks ==
    {<<StartLine>> \o BodyLines(v, n, a) \o <<EndLine>> :
        v \in {"name first", "arguments first"}, n \in ToolNames,
        a \in {<<>>, <<<<"q", "w">>>>}}

TwoBlockSources ==
    {[shape |-> "two blocks", variant |-> v, name |-> n, args |-> a,
      before |-> b, after |-> m \o second] :
        v \in Variants, n \in ToolNames, a \in ArgLists,
        b \in {<<>>, <<ProseLine>>}, m \in {<<>>, <<ProseLine>>, <<BlankLine>>},
        second \in SecondBlocks}

InitExtract ==
    /\ xpc = "input"
    /\ xres = NotRun
    /\ \/ xsrc = FreeSource /\ xtext \in SeqsUpTo(LineAlphabet, MaxLen)
       \/ xsrc \in BlockSources /\ xtext = BlockText(xsrc)
       \/ xsrc \in TwoBlockSources /\ xtext = BlockText(xsrc)
    /\ FIdle /\ AIdle /\ SIdle /\ PIdle /\ CIdle /\ TIdle /\ EIdle /\ LIdle

\* result = Agent.extract_tool_calls(text)
Extract ==
    /\ xpc = "input"
    /\ xres' = extract_tool_calls(xtext)
    /\ xpc' = "done"
    /\ UNCHANGED <<xsrc, xtext>>

NextExtract == Extract /\ UNCHANGED <<fvars, avars, svars, pvars, cvars, tvars, evars, lvars>>

SpecExtract == InitExtract /\ [][NextExtract]_vars

----------------------------------------------------------------------------
(***************************************************************************)
(* Properties of the extractor (checked under SpecExtract).                *)
(***************************************************************************)
NoStart(text) == \A i \in 1..Len(text) : ~HasStart(text[i])
NoEnd(text)   == \A i \in 1..Len(text) : ~HasEnd(text[i])

\* the call a rendered block denotes
SourceCall(src) == [name |-> YStr(<<src.name>>), arguments |-> ArgValue(src.args)]

\* a line of the text before the block is read while an opening marker is open:
\* some non-marker line whose nearest marker line before it holds the opening marker
CollectsBefore(before) ==
    \E j \in 1..Len(before) :
        /\ before[j].mark = "none"
        /\ \E i \in 1..(j - 1) :
              /\ HasStart(before[i])
              /\ \A k \in (i + 1)..(j - 1) : before[k].mark = "none"

\* C3 as stated: a text holding one well-formed block yields exactly the call of
\* that block, whatever the text before and after the block is.
C3_AnyTextAround ==
    (xpc = "done" /\ xsrc.shape = "block") => xres = Returned(<<SourceCall(xsrc)>>)

\* C3 (amended): a text holding one well-formed block yields exactly the call of that
\* block, whatever the text after the block is and whatever the text before it is,
\* provided no line of the text before is read while an opening marker is open.
C3_WellFormedBlock ==
    (xpc = "done" /\ xsrc.shape = "block" /\ ~CollectsBefore(xsrc.before))
        => xres = Returned(<<SourceCall(xsrc)>>)

C3_Witness ==
    /\ xpc = "done" /\ xsrc.shape = "block"
    /\ xsrc.args = <<<<"p", "v">>, <<"q", "w">>>>
    /\ xsrc.before = <<ProseLine, EndLine>> /\ xsrc.after = <<StartLine>>
    /\ xres = Returned(<<[name |-> YStr(<<xsrc.name>>),
                          arguments |-> YMap({<<"p", YStr(<<"v">>)>>,
                                              <<"q", YStr(<<"w">>)>>})]>>)

\* C4: a text in which no line holds the opening marker (no marker at all, or closing
\* markers only) yields the empty list, and nothing is raised.
C4_NoPairNoCall ==
    (xpc = "done" /\ NoStart(xtext)) => xres = Returned(<<>>)

C4_Witness ==
    /\ xpc = "done" /\ NoStart(xtext) /\ ~NoEnd(xtext)
    /\ \E i \in 1..Len(xtext) : xtext[i].mark = "none" /\ xtext[i].key = "name"
    /\ xres = Returned(<<>>)

\* C5 as stated: a text with an opening marker and no closing marker makes the
\* extraction raise.
C5_UnmatchedStartRaises ==
    (xpc = "done" /\ ~NoStart(xtext) /\ NoEnd(xtext)) => xres.kind = "raise"

\* C21: of two complete blocks in one response only the first is honored:
\* the extraction returns the call of the first block, and no extraction
\* returns more than one call.
C21_FirstBlockOnly ==
    /\ (xpc = "done" /\ xsrc.shape = "two blocks")
          => xres = Returned(<<SourceCall(xsrc)>>)
    /\ xpc = "done" => Len(xres.calls) <= 1

C21_Witness ==
    /\ xpc = "done" /\ xsrc.shape = "two blocks" /\ xsrc.name = "t1"
    /\ xsrc.after = <<ProseLine, StartLine, TextLine(0, "name", "t2"),
                      TextLine(0, "arguments", ""), TextLine(1, "q", "w"), EndLine>>
    /\ xres.kind = "calls" /\ Len(xres.calls) = 1 /\ xres.calls[1].name = YStr(<<"t1">>)

\* C22 as stated: a response in which more than one tool call is found makes
\* the extraction raise.
C22_SeveralCallsRaise ==
    (xpc = "done" /\ xsrc.shape = "two blocks") => xres.kind = "raise"

\* the text is one block: an opening marker line, a body without markers, a
\* closing marker line
OneBlock(text) ==
    /\ Len(text) >= 2 /\ text[1] = StartLine /\ text[Len(text)] = EndLine
    /\ \A k \in 2..(Len(text) - 1) : text[k].mark = "none"
BodyOf(text) == SubSeq(text, 2, Len(text) - 1)
AllBlank(lines) == \A k \in 1..Len(lines) : IsBlank(lines[k])

\* C23 as stated: a block whose body has no line, or only blank lines, yields
\* the empty list and nothing is raised.
C23_EmptyBodyNoCall ==
    (xpc = "done" /\ OneBlock(xtext) /\ AllBlank(BodyOf(xtext))) => xres = Returned(<<>>)

RequiredKeys == {"name", "arguments"}

\* the parts of a raised message: the fixed texts of lines 94, 97 and 100
\* around str(e)
MessageParts(err) ==
    CASE err = ErrMissing -> {"error while handling the tool call",
                              "the tool call lacks required fields"}
      [] err = ErrType    -> {"error while handling the tool call", "TypeError"}
      [] OTHER            -> {"YAML parse error"}

\* the required keys a raised message names
KeysNamed(err) == RequiredKeys \cap MessageParts(err)

MissingKeys(body) == {k \in RequiredKeys : ~Has(YamlSafeLoad(body).m, k)}

\* C24 as stated: a block whose body parses to a mapping without `name` or
\* without `arguments` makes the extraction raise an error that names the
\* missing key.
C24_MissingKeyNamed ==
    (/\ xpc = "done" /\ OneBlock(xtext)
     /\ YamlSafeLoad(BodyOf(xtext)).t = "map" /\ MissingKeys(BodyOf(xtext)) # {})
        => /\ xres.kind = "raise"
           /\ MissingKeys(BodyOf(xtext)) \subseteq KeysNamed(xres.err)

----------------------------------------------------------------------------
(***************************************************************************)
(* PatchHandler.apply_file_patch (jarvis_coder/patch_handler.py) on one    *)
(* path of a git working tree.  A text is a sequence of characters.        *)
(***************************************************************************)
\* class Patch
Patch(old_code, new_code) == [old_code |-> old_code, new_code |-> new_code]

MatchAt(s, t, i) == i + Len(t) - 1 <= Len(s) /\ SubSeq(s, i, i + Len(t) - 1) = t

RECURSIVE FindFrom(_, _, _)
FindFrom(s, t, i) ==
    IF i + Len(t) - 1 > Len(s) THEN -1
    ELSE IF MatchAt(s, t, i) THEN i - 1
    ELSE FindFrom(s, t, i + 1)

RECURSIVE RFindFrom(_, _, _)
RFindFrom(s, t, i) ==
    IF i < 1 THEN -1
    ELSE IF MatchAt(s, t, i) THEN i - 1
    ELSE RFindFrom(s, t, i - 1)

StrRFind(s, t) == RFindFrom(s, t, Len(s) - Len(t) + 1)

\* str.find: the 0-based index of the leftmost occurrence, or -1
StrFind(s, t) == FindFrom(s, t, 1)

\* str.replace(old, new, 1)
StrReplaceOnce(s, old, new) ==
    LET at == StrFind(s, old)
    IN IF at = -1 THEN s
       ELSE SubSeq(s, 1, at) \o new \o SubSeq(s, at + Len(old) + 1, Len(s))

(***************************************************************************)
(* The path's world: kind is "root" for a path without a directory part    *)
(* (os.path.dirname is ''), "dir" for a path in a directory that holds     *)
(* other files, "own" for a path that is alone in its directory; direx     *)
(* says whether the directory exists.  The git commands run through        *)
(* os.system, so a failing command changes nothing and is not noticed.     *)
(***************************************************************************)
\* git add <path>
GitAdd(w) ==
    IF w.disk.ex THEN [w EXCEPT !.index = w.disk]
    ELSE IF w.index.ex THEN [w EXCEPT !.index = Absent]
    ELSE w

\* git rm <path>: refused for an untracked path and for a file that differs from
\* the index or whose index entry differs from HEAD; removes an emptied directory
GitRm(w) ==
    IF ~w.index.ex THEN w
    ELSE IF w.disk.ex /\ (w.disk # w.index \/ w.index # w.head) THEN w
    ELSE [w EXCEPT !.index = Absent, !.disk = Absent,
                   !.direx = IF w.kind = "own" /\ w.disk.ex THEN FALSE ELSE @]

\* git reset <path>: without "--" the argument must name a file of the working tree
GitReset(w) ==
    IF ~w.disk.ex THEN w ELSE [w EXCEPT !.index = w.head]

\* git checkout -- <path>: restores the file from the index
GitCheckout(w) ==
    IF ~w.index.ex THEN w ELSE [w EXCEPT !.disk = w.index, !.direx = TRUE]

\* open(file_path, "w").write(text)
CanWrite(w) == w.direx
WriteFile(w, text) == [w EXCEPT !.disk = File(text)]

\* lines 50-54: create the file when it is missing, then read it
OpenForPatch(w) ==
    IF w.disk.ex THEN [w |-> w, file_content |-> w.disk.c, res |-> "run"]
    ELSE IF w.kind = "root"
    THEN [w |-> w, file_content |-> <<>>, res |-> "raise"]   \* os.makedirs('')
    ELSE [w |-> [w EXCEPT !.direx = TRUE, !.disk = File(<<>>)],
          file_content |-> <<>>, res |-> "run"]

ApplyOneSilent(st, patch) ==
    IF patch.old_code = <<>> /\ patch.new_code = <<>>
    THEN [st EXCEPT !.file_content = <<>>, !.w = GitRm(st.w)]
    ELSE IF patch.old_code = <<>>
    THEN IF CanWrite(st.w)
         THEN [st EXCEPT !.file_content = patch.new_code,
                         !.w = GitAdd(WriteFile(st.w, patch.new_code))]
         ELSE [st EXCEPT !.file_content = patch.new_code, !.res = "raise"]
    ELSE IF StrFind(st.file_content, patch.old_code) = -1
    THEN st
    ELSE LET text == StrReplaceOnce(st.file_content, patch.old_code, patch.new_code)
         IN IF CanWrite(st.w)
            THEN [st EXCEPT !.file_content = text, !.w = GitAdd(WriteFile(st.w, text))]
            ELSE [st EXCEPT !.file_content = text, !.res = "raise"]

\* lines 56-78: the body of the loop for one patch
ApplyOne(st, patch) ==
    IF patch.old_code = <<>> /\ patch.new_code = <<>>
    THEN [st EXCEPT !.file_content = <<>>, !.w = GitRm(st.w)]
    ELSE IF patch.old_code = <<>>
    THEN IF CanWrite(st.w)
         THEN [st EXCEPT !.file_content = patch.new_code,
                         !.w = GitAdd(WriteFile(st.w, patch.new_code))]
         ELSE [st EXCEPT !.file_content = patch.new_code, !.res = "raise"]
    ELSE IF StrFind(st.file_content, patch.old_code) = -1
    THEN [st EXCEPT !.w = GitCheckout(GitReset(st.w)), !.res = "false"]
    ELSE LET text == StrReplaceOnce(st.file_content, patch.old_code, patch.new_code)
         IN IF CanWrite(st.w)
            THEN [st EXCEPT !.file_content = text, !.w = GitAdd(WriteFile(st.w, text))]
            ELSE [st EXCEPT !.file_content = text, !.res = "raise"]

\* lines 55-79: the loop over the patches, left at the first return or raise
RECURSIVE ApplyFrom(_, _, _)
ApplyFrom(st, patches, i) ==
    IF st.res # "run" THEN st
    ELSE IF i > Len(patches) THEN [st EXCEPT !.res = "true"]
    ELSE ApplyFrom(ApplyOne(st, patches[i]), patches, i + 1)

\* lines 48-79
apply_file_patch(w, patches) == ApplyFrom(OpenForPatch(w), patches, 1)

----------------------------------------------------------------------------
(***************************************************************************)
(* The patcher's inputs: the state of the path and the patch list.         *)
(***************************************************************************)
MaxContentLen == 3  \* characters of a file drawn from {"a", "b"}
MaxPatches == 2     \* patches in one list
MaxCalls == 2       \* calls of apply_file_patch with the same list

Contents == SeqsUpTo({"a", "b"}, MaxContentLen)
OldCodes == {<<>>, <<"a">>, <<"a", "b">>}
NewCodes == {<<>>, <<"b">>, <<"a", "a">>}
Patches  == {Patch(o, n) : o \in OldCodes, n \in NewCodes}
PathKinds == {"root", "dir", "own"}

World(kind, head, index, disk) ==
    [kind |-> kind, head |-> head, index |-> index, disk |-> disk,
     direx |-> (kind # "own" \/ disk.ex)]

\* the round trip of the specification: "a\nb\nc\n" with b\n -> B\n
ExampleContent == <<"a", "\n", "b", "\n", "c", "\n">>
ExamplePatch   == Patch(<<"b", "\n">>, <<"B", "\n">>)

InitFilePatch ==
    /\ fcalls = 0 /\ fres = "none"
    /\ \/ \E kind \in PathKinds, disk \in {Absent} \cup {File(c) : c \in Contents} :
            \E head \in {Absent, File(<<>>), File(<<"a", "b">>), disk} :
                /\ fworld = World(kind, head, head, disk)
                /\ fpatches \in SeqsUpTo(Patches, MaxPatches)
       \/ /\ fworld = World("root", File(ExampleContent), File(ExampleContent),
                            File(ExampleContent))
          /\ fpatches = <<ExamplePatch>>
    /\ fpre = fworld
    /\ XIdle /\ AIdle /\ SIdle /\ PIdle /\ CIdle /\ TIdle /\ EIdle /\ LIdle

\* ok = handler.apply_file_patch(file_path, patches)
ApplyFilePatch ==
    /\ fcalls < MaxCalls
    /\ LET r == apply_file_patch(fworld, fpatches)
       IN /\ fworld' = r.w
          /\ fres' = r.res
    /\ fpre' = fworld
    /\ fcalls' = fcalls + 1
    /\ UNCHANGED fpatches

NextFilePatch == ApplyFilePatch /\ UNCHANGED <<xvars, avars, svars, pvars, cvars, tvars, evars, lvars>>

SpecFilePatch == InitFilePatch /\ [][NextFilePatch]_vars

----------------------------------------------------------------------------
(***************************************************************************)
(* Properties of apply_file_patch (checked under SpecFilePatch).           *)
(***************************************************************************)
Occurs(s, t) == \E i \in 1..Len(s) : MatchAt(s, t, i)

\* r is s with the leftmost occurrence of old replaced by new, the rest unchanged
FirstReplaced(s, old, new, r) ==
    \E i \in 1..Len(s) :
        /\ MatchAt(s, old, i)
        /\ \A j \in 1..(i - 1) : ~MatchAt(s, old, j)
        /\ r = SubSeq(s, 1, i - 1) \o new \o SubSeq(s, i + Len(old), Len(s))

DeleteShape(p)   == p.old_code = <<>> /\ p.new_code = <<>>
ReplaceShape(p)  == p.old_code = <<>> /\ p.new_code # <<>>
AnchoredShape(p) == p.old_code # <<>> /\ p.new_code # <<>>

\* C6: after a call with one anchored patch whose old_code occurs in the file, the
\* call has returned True and the file holds its former text with the leftmost
\* occurrence of old_code replaced by new_code once, everything else unchanged.
C6_AnchoredReplacesFirst ==
    (/\ fcalls >= 1 /\ Len(fpatches) = 1 /\ AnchoredShape(fpatches[1])
     /\ fpre.disk.ex /\ Occurs(fpre.disk.c, fpatches[1].old_code))
        => /\ fres = "true"
           /\ fworld.disk.ex
           /\ FirstReplaced(fpre.disk.c, fpatches[1].old_code, fpatches[1].new_code,
                            fworld.disk.c)

C6_Witness ==
    /\ fcalls = 1 /\ fpatches = <<ExamplePatch>> /\ fpre.disk = File(ExampleContent)
    /\ fres = "true"
    /\ fworld.disk = File(<<"a", "\n", "B", "\n", "c", "\n">>)

\* C7: after a call whose first patch has a non-empty old_code that does not occur
\* in the existing file, the call has returned False, and the file is as it was
\* before the call or as it is in HEAD: new_code was not written.
C7_MissFails ==
    (/\ fcalls >= 1 /\ fpatches # <<>> /\ fpatches[1].old_code # <<>>
     /\ fpre.disk.ex /\ ~Occurs(fpre.disk.c, fpatches[1].old_code))
        => /\ fres = "false"
           /\ fworld.disk \in {fpre.disk, fpre.head}

\* the same patch applied a second time, after the first application removed old_code
C7_Witness ==
    /\ fcalls = 2 /\ fpatches = <<Patch(<<"a">>, <<"b">>)>>
    /\ fpre.head = File(<<"a", "b">>) /\ fpre.disk = File(<<"b", "b">>)
    /\ fres = "false"
    /\ fworld.disk = File(<<"a", "b">>)

\* C8 as stated: after one and after two calls with a single whole-file replace patch
\* the file holds new_code, whatever the file was before (absent, empty, any text).
C8_WholeReplaceIdempotent ==
    (fcalls >= 1 /\ Len(fpatches) = 1 /\ ReplaceShape(fpatches[1]))
        => fworld.disk = File(fpatches[1].new_code)

\* C9 as stated: a delete-shape patch on a path that does not exist returns True and
\* the path still does not exist afterwards.
C9_DeleteMissingIsNoOp ==
    (fcalls = 1 /\ Len(fpatches) = 1 /\ DeleteShape(fpatches[1]) /\ ~fpre.disk.ex)
        => fres = "true" /\ ~fworld.disk.ex

\* the state of the path in the baseline revision; for a path the revision
\* does not hold, the state it had when the session began
Baseline(w) == IF w.head.ex THEN w.head ELSE w.disk

\* C27 as stated: whenever the call returns False the file is in its
\* baseline state, also after earlier patches of the list were applied and
\* staged, and a file that did not exist before is absent again.
C27_FalseMeansBaseline ==
    (fcalls = 1 /\ fres = "false") => fworld.disk = Baseline(fpre)

\* the text a patch list yields from a text, patch after patch
RECURSIVE Compose(_, _, _)
Compose(text, patches, i) ==
    IF i > Len(patches) THEN text
    ELSE IF DeleteShape(patches[i]) THEN Compose(<<>>, patches, i + 1)
    ELSE IF patches[i].old_code = <<>> THEN Compose(patches[i].new_code, patches, i + 1)
    ELSE Compose(StrReplaceOnce(text, patches[i].old_code, patches[i].new_code),
                 patches, i + 1)
TextOf(file) == IF file.ex THEN file.c ELSE <<>>

\* C30 as stated: after a call that returned True the file on disk holds the
\* sequential composition of all patches of the list applied to the original
\* content, for every mix of shapes (a deleted file holds no text).
C30_SequentialComposition ==
    (fcalls = 1 /\ fres = "true")
        => TextOf(fworld.disk) = Compose(TextOf(fpre.disk), fpatches, 1)

----------------------------------------------------------------------------
(***************************************************************************)
(* The model transport (models/oyi.py OyiModel).                           *)
(***************************************************************************)
\* OyiModel.reset
reset(m) == [m EXCEPT !.messages = <<>>, !.conversation = FALSE, !.files = 0,
                      !.first_chat = TRUE]

\* OyiModel.delete_chat; ok says whether the delete request succeeds.  The value is
\* the transport afterwards (the call returns False instead of raising).
delete_chat(m, ok) ==
    IF ~m.conversation THEN m
    ELSE IF ok THEN reset(m)
    ELSE m

\* OyiModel.set_system_message
set_system_message(m, text) == [m EXCEPT !.system_message = text]

\* the request OyiModel.chat builds for a message (lines 125-147)
ChatRequest(m, message) ==
    [content |-> message.text,
     system |-> IF m.first_chat THEN m.system_message ELSE "",
     contentFiles |-> IF m.first_chat THEN m.files ELSE 0,
     reminders |-> message.reminders]

\* OyiModel.chat up to the request: the conversation exists, the files were handed
\* over, the user message is in messages (lines 111-149)
ChatSend(m, message) ==
    [m EXCEPT !.conversation = TRUE,
              !.files = IF m.first_chat THEN 0 ELSE @,
              !.first_chat = FALSE,
              !.messages = Append(@, [role |-> "user",
                                      content |-> ChatRequest(m, message).content,
                                      system |-> ChatRequest(m, message).system])]

\* OyiModel.chat when the reply arrived (line 180)
ChatReply(m, message, text) ==
    [ChatSend(m, message) EXCEPT
        !.messages = Append(@, [role |-> "assistant", content |-> text, system |-> ""])]

(***************************************************************************)
(* Responses of the model: a name and the text it stands for.              *)
(***************************************************************************)
SentinelLine == TextLine(0, "", "!<<SUMMARIZE>>!")

ToolBlock == <<StartLine, TextLine(0, "name", "t1"), TextLine(0, "arguments", ""),
               TextLine(1, "p", "v"), EndLine>>

ResponseText(r) ==
    CASE r = "plain"         -> <<ProseLine>>
      [] r = "tool"          -> <<ProseLine>> \o ToolBlock
      [] r = "sentinel"      -> <<SentinelLine>>
      [] r = "sentinel+tool" -> <<SentinelLine>> \o ToolBlock
      [] r = "malformed"     -> <<StartLine, ProseLine, TextLine(0, "name", "t1"), EndLine>>
      [] OTHER               -> <<BlankLine>>      \* "": the empty response

Responses == {"plain", "tool", "sentinel", "sentinel+tool", "malformed"}

\* "!<<SUMMARIZE>>!" in current_response
HasSentinel(text) == \E i \in 1..Len(text) : text[i].val = "!<<SUMMARIZE>>!"

Prompt(text) == [text |-> text, reminders |-> 0]

----------------------------------------------------------------------------
(***************************************************************************)
(* Agent.run (agent.py).  One action per stretch of code between two       *)
(* points where run waits: for the model, for a tool, for the user.        *)
(* choose_tools (line 355) asks the global platform.  When that is the     *)
(* instance that is self.model, its request goes through the transport     *)
(* that clear_history has just reset, before the system message is set.    *)
(* A failure of that request is swallowed (lines 320-322).                 *)
(***************************************************************************)
MaxCycles == 2      \* iterations of the run-loop in one run
MaxFails == 1       \* failed chat attempts in one run

InitialSleep == 5   \* agent.py:111
MaxSleep == 30      \* agent.py:120-121
TurnLimit == 10     \* agent.py:436

UserInputs == {"__interrupt__", "text", ""}
Answers    == {"y", "n", ""}
\* input() at the methodology question: end of input, Ctrl-C
InputFaults == {"EOFError", "KeyboardInterrupt"}

\* the agent after construction, run called with one of the given file lists
InitRun(file_lists) ==
    /\ pc = "start"
    /\ is_sub_agent \in BOOLEAN /\ keep_history \in BOOLEAN /\ file_list \in file_lists
    /\ prompt = Prompt("") /\ conversation_turns = 0
    /\ model = NewModel /\ purpose = "none" /\ sleep_time = 0 /\ response = "none"
    /\ result = "none" /\ last_request = NoRequest /\ cycles = 0 /\ fails = 0
    /\ log = NoLog
    /\ XIdle /\ FIdle /\ SIdle /\ PIdle /\ CIdle /\ TIdle /\ EIdle /\ LIdle

\* run(user_input): no file is passed
InitAgent == InitRun({0})

\* run(user_input, file_list): a file may be passed
InitFiles == InitRun({0, 1})

\* a chat attempt is noted when it starts after the user's empty input
Noted(l, what) == IF l.empty_read THEN [l EXCEPT !.post_calls = @ \cup {what}] ELSE l

\* what run did, in order: e is "chat" (one attempt of model.chat: p its purpose,
\* c the message, r the outcome), "extract_error", "tool", "user" (r the input),
\* "ask" (r the answer), "exception" (r its class)
Event(e, p, c, r) == [e |-> e, p |-> p, c |-> c, r |-> r]
Did(l, ev) == [l EXCEPT !.events = Append(@, ev)]
ChatDid(l, p, message, r) == Did(Noted(l, p), Event("chat", p, message.text, r))

\* what run's handlers make of an exception that reaches them: the classes
\* of Exception are caught at 474-480, KeyboardInterrupt is not
Raise(class) ==
    IF class = "KeyboardInterrupt" THEN "raise KeyboardInterrupt" ELSE "raise Exception"


OnException(class) ==
    IF class = "KeyboardInterrupt" THEN Raise(class) ELSE "Task failed"

\* lines 293-322: what choose_tools leaves of the transport m it asks.  Its one
\* model.chat(prompt) gets a reply, or fails before the conversation exists,
\* or fails after the message was recorded; the two failures are swallowed.
ToolChoicePrompt == [text |-> "tool_choice", reminders |-> 0]
choose_tools(m, outcome) ==
    CASE outcome = "reply"         -> ChatReply(m, ToolChoicePrompt, "t1")
      [] outcome = "send_failed"   -> ChatSend(m, ToolChoicePrompt)
      [] OTHER                     -> m
ToolChoiceOutcomes == {"reply", "create_failed", "send_failed"}

\* what the attempt of line 310 is noted as
ToolChoiceResult(outcome) == IF outcome = "reply" THEN "t1" ELSE outcome

\* lines 335-425: upload, clear_history, choose_tools, system message, first prompt.
\* PlatformRegistry.get_global_platform (line 307) hands choose_tools either the
\* instance that is self.model (shared) or an instance of its own.
Setup ==
    /\ pc = "start"
    /\ \E uploaded \in {0, file_list} :
          LET cleared == reset([model EXCEPT !.files = @ + uploaded])
          IN \/ \E outcome \in ToolChoiceOutcomes, shared \in BOOLEAN :
                   /\ outcome # "reply" => fails < MaxFails
                   /\ fails' = IF outcome = "reply" THEN fails ELSE fails + 1
                   /\ model' = set_system_message(
                                   IF shared THEN choose_tools(cleared, outcome)
                                   ELSE cleared, "system")
                   /\ last_request' = IF outcome = "create_failed" THEN last_request
                                      ELSE ChatRequest(IF shared THEN cleared ELSE NewModel,
                                                       ToolChoicePrompt)
                   /\ log' = ChatDid([log EXCEPT !.uploaded = uploaded], "tool_choice",
                                     ToolChoicePrompt, ToolChoiceResult(outcome))
                   /\ prompt' = Prompt("task")
                   /\ pc' = "cycle"
                   /\ UNCHANGED result
             \/ \* choose_tools raises before its try (line 306): caught at 478
                /\ model' = cleared
                /\ log' = Did([log EXCEPT !.uploaded = uploaded],
                              Event("exception", "setup", "", "Exception"))
                /\ prompt' = Prompt("")
                /\ result' = OnException("Exception")
                /\ pc' = "finally"
                /\ UNCHANGED <<fails, last_request>>
    /\ conversation_turns' = 0
    /\ UNCHANGED <<xvars, fvars, svars, pvars, cvars, tvars, evars, lvars>>
    /\ UNCHANGED <<is_sub_agent, keep_history, file_list, purpose, sleep_time, response,
                   cycles>>

RemindAtLimit(p, turns) ==
    IF turns >= TurnLimit THEN [p EXCEPT !.reminders = @ + 1] ELSE p

\* lines 436-437: past the limit the reminder is appended to the prompt
Remind(p, turns) ==
    IF turns > TurnLimit THEN [p EXCEPT !.reminders = @ + 1] ELSE p

\* lines 428-439: count the turn, add the reminder, enter _call_model
BeginCycle ==
    /\ pc = "cycle"
    /\ cycles < MaxCycles
    /\ cycles' = cycles + 1
    /\ conversation_turns' = conversation_turns + 1
    /\ prompt' = Remind(prompt, conversation_turns')
    /\ purpose' = "main"
    /\ sleep_time' = InitialSleep
    /\ pc' = "chat"
    /\ UNCHANGED <<xvars, fvars, svars, pvars, cvars, tvars, evars, lvars>>
    /\ UNCHANGED <<is_sub_agent, keep_history, file_list, model, response, result,
                   last_request, fails, log>>

\* lines 118-121: the next wait of _call_model
NextSleep(t) == IF 2 * t > MaxSleep THEN MaxSleep ELSE 2 * t

CompleteTailNeverSummary(sub, p) ==
    [pc |-> "finally", result |-> "Task completed", prompt |-> p, purpose |-> "none"]

CompleteTailAlwaysSummary(sub, p) ==
    [pc |-> "chat", result |-> "none", prompt |-> Prompt("summary_report"),
     purpose |-> "summary"]

\* lines 276-291: what _complete_task does after the methodology part
CompleteTail(sub, p) ==
    IF ~sub
    THEN [pc |-> "finally", result |-> "Task completed", prompt |-> p, purpose |-> "none"]
    ELSE [pc |-> "chat", result |-> "none", prompt |-> Prompt("summary_report"),
          purpose |-> "summary"]

\* the replies drawn for a call: those to the analysis and summary requests
\* are only printed or returned
RepliesFor(p) == IF p = "main" THEN Responses ELSE {"plain", "malformed"}

\* lines 109-122 with OyiModel.chat: one attempt of self.model.chat(self.prompt)
Chat ==
    /\ pc = "chat"
    /\ \/ \* create_conversation fails: chat raises and while_success tries again
          /\ ~model.conversation /\ fails < MaxFails
          /\ fails' = fails + 1
          /\ log' = ChatDid(log, purpose, prompt, "create_failed")
          /\ UNCHANGED <<model, last_request, sleep_time, response, pc, purpose, prompt,
                         result>>
       \/ \* the request fails after the message was recorded: the same
          /\ fails < MaxFails
          /\ fails' = fails + 1
          /\ model' = ChatSend(model, prompt)
          /\ last_request' = ChatRequest(model, prompt)
          /\ log' = ChatDid(log, purpose, prompt, "send_failed")
          /\ UNCHANGED <<sleep_time, response, pc, purpose, prompt, result>>
       \/ \* an empty reply: _call_model waits sleep_time and tries again
          /\ fails < MaxFails
          /\ fails' = fails + 1
          /\ model' = ChatReply(model, prompt, "")
          /\ last_request' = ChatRequest(model, prompt)
          /\ sleep_time' = NextSleep(sleep_time)
          /\ log' = ChatDid(log, purpose, prompt, "empty")
          /\ UNCHANGED <<response, pc, purpose, prompt, result>>
       \/ \* a reply
          \E r \in RepliesFor(purpose) :
             /\ model' = ChatReply(model, prompt, r)
             /\ last_request' = ChatRequest(model, prompt)
             /\ response' = r
             /\ log' = ChatDid(log, purpose, prompt, r)
             /\ CASE purpose = "main" ->
                       /\ pc' = "respond"
                       /\ UNCHANGED <<purpose, prompt, result, sleep_time>>
                  [] purpose = "analysis" ->
                       \* lines 267-271: the extraction's result or error is printed
                       LET t == CompleteTail(is_sub_agent, prompt)
                       IN /\ pc' = t.pc /\ result' = t.result /\ prompt' = t.prompt
                          /\ purpose' = t.purpose /\ sleep_time' = InitialSleep
                  [] OTHER ->
                       \* line 291: the summary is what run returns
                       /\ pc' = "finally" /\ result' = r
                       /\ UNCHANGED <<purpose, prompt, sleep_time>>
             /\ UNCHANGED fails
    /\ UNCHANGED <<xvars, fvars, svars, pvars, cvars, tvars, evars, lvars>>
    /\ UNCHANGED <<is_sub_agent, keep_history, file_list, conversation_turns, cycles>>

\* extract_tool_calls(current_response) for each response of the model
Extracted == [r \in Responses |-> extract_tool_calls(ResponseText(r))]

HandleResponseToolFirst ==
    /\ pc = "respond"
    /\ LET text == ResponseText(response)
           calls == Extracted[response]
       IN IF calls.kind = "raise"
          THEN /\ pc' = "cycle" /\ prompt' = Prompt("tool_call_error")
               /\ log' = Did(log, Event("extract_error", "main", "", response))
          ELSE IF Len(calls.calls) > 0
          THEN pc' = "tool" /\ UNCHANGED <<prompt, log>>
          ELSE IF HasSentinel(text)
          THEN pc' = "summarize" /\ UNCHANGED <<prompt, log>>
          ELSE pc' = "user" /\ UNCHANGED <<prompt, log>>
    /\ UNCHANGED <<xvars, fvars, svars, pvars, cvars, tvars, evars, lvars>>
    /\ UNCHANGED <<is_sub_agent, keep_history, file_list, conversation_turns, model,
                   purpose, sleep_time, response, result, last_request, cycles, fails>>

HandleResponseToolAsksUser ==
    /\ pc = "respond"
    /\ LET text == ResponseText(response)
           calls == Extracted[response]
       IN IF HasSentinel(text)
          THEN pc' = "summarize" /\ UNCHANGED <<prompt, log>>
          ELSE IF calls.kind = "raise"
          THEN /\ pc' = "cycle" /\ prompt' = Prompt("tool_call_error")
               /\ log' = Did(log, Event("extract_error", "main", "", response))
          ELSE IF Len(calls.calls) > 0
          THEN pc' = "user" /\ UNCHANGED <<prompt, log>>
          ELSE pc' = "user" /\ UNCHANGED <<prompt, log>>
    /\ UNCHANGED <<xvars, fvars, svars, pvars, cvars, tvars, evars, lvars>>
    /\ UNCHANGED <<is_sub_agent, keep_history, file_list, conversation_turns, model,
                   purpose, sleep_time, response, result, last_request, cycles, fails>>

HandleResponseDropsError ==
    /\ pc = "respond"
    /\ LET text == ResponseText(response)
           calls == Extracted[response]
       IN IF HasSentinel(text)
          THEN pc' = "summarize" /\ UNCHANGED <<prompt, log>>
          ELSE IF calls.kind = "raise"
          THEN /\ pc' = "user" /\ UNCHANGED prompt
               /\ log' = Did(log, Event("extract_error", "main", "", response))
          ELSE IF Len(calls.calls) > 0
          THEN pc' = "tool" /\ UNCHANGED <<prompt, log>>
          ELSE pc' = "user" /\ UNCHANGED <<prompt, log>>
    /\ UNCHANGED <<xvars, fvars, svars, pvars, cvars, tvars, evars, lvars>>
    /\ UNCHANGED <<is_sub_agent, keep_history, file_list, conversation_turns, model,
                   purpose, sleep_time, response, result, last_request, cycles, fails>>

\* lines 441-459: the sentinel, then the extraction
HandleResponse ==
    /\ pc = "respond"
    /\ LET text == ResponseText(response)
           calls == Extracted[response]
       IN IF HasSentinel(text)
          THEN pc' = "summarize" /\ UNCHANGED <<prompt, log>>
          ELSE IF calls.kind = "raise"
          THEN /\ pc' = "cycle" /\ prompt' = Prompt("tool_call_error")
               /\ log' = Did(log, Event("extract_error", "main", "", response))
          ELSE IF Len(calls.calls) > 0
          THEN pc' = "tool" /\ UNCHANGED <<prompt, log>>
          ELSE pc' = "user" /\ UNCHANGED <<prompt, log>>
    /\ UNCHANGED <<xvars, fvars, svars, pvars, cvars, tvars, evars, lvars>>
    /\ UNCHANGED <<is_sub_agent, keep_history, file_list, conversation_turns, model,
                   purpose, sleep_time, response, result, last_request, cycles, fails>>

\* what handle_tool_calls returns: the tool's output, or the text of its error
\* (the registry converts a tool's exception to a result)
ToolResults == {"tool_result", "tool_error"}

ExecuteToolRetries ==
    /\ pc = "tool"
    /\ \E tool_result \in ToolResults :
          /\ log' = Did([log EXCEPT !.tools = @ + 1], Event("tool", "main", "", tool_result))
          /\ IF tool_result = "tool_error"
             THEN pc' = "tool" /\ UNCHANGED prompt
             ELSE pc' = "cycle" /\ prompt' = Prompt(tool_result)
    /\ log.tools < 3
    /\ UNCHANGED <<xvars, fvars, svars, pvars, cvars, tvars, evars, lvars>>
    /\ UNCHANGED <<is_sub_agent, keep_history, file_list, conversation_turns, model,
                   purpose, sleep_time, response, result, last_request, cycles, fails>>

\* lines 453-459: the tool's text becomes the next prompt
ExecuteTool ==
    /\ pc = "tool"
    /\ \E tool_result \in ToolResults :
          /\ prompt' = Prompt(tool_result)
          /\ log' = Did([log EXCEPT !.tools = @ + 1], Event("tool", "main", "", tool_result))
    /\ pc' = "cycle"
    /\ UNCHANGED <<xvars, fvars, svars, pvars, cvars, tvars, evars, lvars>>
    /\ UNCHANGED <<is_sub_agent, keep_history, file_list, conversation_turns, model,
                   purpose, sleep_time, response, result, last_request, cycles, fails>>

RecapPrompt == Prompt("recap_request")

\* lines 196-238 (_summarize_and_clear_history), then `continue`
Summarize ==
    /\ pc = "summarize"
    /\ \/ \* the recap request fails: caught at 237
          /\ model' = ChatSend(model, RecapPrompt)
          /\ last_request' = ChatRequest(model, RecapPrompt)
          /\ log' = Did([log EXCEPT !.summarized = "recap_failed",
                                    !.before_summary = Len(model.messages)],
                        Event("chat", "recap", RecapPrompt.text, "send_failed"))
          /\ UNCHANGED <<prompt, conversation_turns>>
       \/ \* the recap arrives; delete_chat succeeds or not
          \E ok \in BOOLEAN :
             /\ model' = delete_chat(ChatReply(model, RecapPrompt, "recap"), ok)
             /\ last_request' = ChatRequest(model, RecapPrompt)
             /\ prompt' = Prompt("summary_context")
             /\ conversation_turns' = 0
             /\ log' = Did([log EXCEPT !.summarized = IF ok THEN "ok" ELSE "delete_failed",
                                       !.before_summary = Len(model.messages)],
                           Event("chat", "recap", RecapPrompt.text, "recap"))
    /\ pc' = "cycle"
    /\ UNCHANGED <<xvars, fvars, svars, pvars, cvars, tvars, evars, lvars>>
    /\ UNCHANGED <<is_sub_agent, keep_history, file_list, purpose, sleep_time, response,
                   result, cycles, fails>>

UserInputInterruptCompletes ==
    /\ pc = "user"
    /\ \E user_input \in UserInputs :
          /\ log' = Did(IF user_input = "" THEN [log EXCEPT !.empty_read = TRUE] ELSE log,
                        Event("user", "main", "", user_input))
          /\ IF user_input \in {"", "__interrupt__"}
             THEN pc' = "ask" /\ UNCHANGED <<prompt, result>>
             ELSE prompt' = Prompt("user_text") /\ pc' = "cycle" /\ UNCHANGED result
    /\ UNCHANGED <<xvars, fvars, svars, pvars, cvars, tvars, evars, lvars>>
    /\ UNCHANGED <<is_sub_agent, keep_history, file_list, conversation_turns, model,
                   purpose, sleep_time, response, last_request, cycles, fails>>

\* lines 461-472: the user's input
UserInput ==
    /\ pc = "user"
    /\ \E user_input \in UserInputs :
          /\ log' = Did(IF user_input = "" THEN [log EXCEPT !.empty_read = TRUE] ELSE log,
                        Event("user", "main", "", user_input))
          /\ CASE user_input = "__interrupt__" ->
                    /\ result' = "Task cancelled by user" /\ pc' = "finally"
                    /\ UNCHANGED prompt
               [] user_input # "" ->
                    /\ prompt' = Prompt("user_text") /\ pc' = "cycle"
                    /\ UNCHANGED result
               [] OTHER ->
                    /\ pc' = "ask"
                    /\ UNCHANGED <<prompt, result>>
    /\ UNCHANGED <<xvars, fvars, svars, pvars, cvars, tvars, evars, lvars>>
    /\ UNCHANGED <<is_sub_agent, keep_history, file_list, conversation_turns, model,
                   purpose, sleep_time, response, last_request, cycles, fails>>

\* lines 246-264 and 276-290 (_complete_task): the methodology question
AskMethodology ==
    /\ pc = "ask"
    /\ \E answer \in Answers \cup InputFaults :
          /\ log' = Did([log EXCEPT !.answer = answer], Event("ask", "", "", answer))
          /\ IF answer \in InputFaults
             THEN \* input() raises: nothing in _complete_task catches it
                  /\ result' = OnException(answer) /\ pc' = "finally"
                  /\ UNCHANGED <<prompt, purpose>>
             ELSE IF answer = "y"
             THEN /\ prompt' = Prompt("methodology_analysis")
                  /\ purpose' = "analysis" /\ pc' = "chat" /\ UNCHANGED result
             ELSE LET t == CompleteTail(is_sub_agent, prompt)
                  IN /\ pc' = t.pc /\ result' = t.result /\ prompt' = t.prompt
                     /\ purpose' = t.purpose
    /\ sleep_time' = InitialSleep
    /\ UNCHANGED <<xvars, fvars, svars, pvars, cvars, tvars, evars, lvars>>
    /\ UNCHANGED <<is_sub_agent, keep_history, file_list, conversation_turns, model,
                   response, last_request, cycles, fails>>

\* the finally clause without the call for a run that failed
CleanupSkipsFailed ==
    /\ pc = "finally"
    /\ IF keep_history \/ result = "Task failed" THEN UNCHANGED <<model, log>>
       ELSE /\ \E ok \in BOOLEAN : model' = delete_chat(model, ok)
            /\ log' = [log EXCEPT !.cleanup_deletes = @ + 1]
    /\ pc' = "done"
    /\ UNCHANGED <<xvars, fvars, svars, pvars, cvars, tvars, evars, lvars>>
    /\ UNCHANGED <<is_sub_agent, keep_history, file_list, prompt, conversation_turns,
                   purpose, sleep_time, response, result, last_request, cycles, fails>>

\* lines 482-488: the finally clause; log.cleanup_deletes counts its delete_chat calls
Cleanup ==
    /\ pc = "finally"
    /\ IF keep_history THEN UNCHANGED <<model, log>>
       ELSE /\ \E ok \in BOOLEAN : model' = delete_chat(model, ok)
            /\ log' = [log EXCEPT !.cleanup_deletes = @ + 1]
    /\ pc' = "done"
    /\ UNCHANGED <<xvars, fvars, svars, pvars, cvars, tvars, evars, lvars>>
    /\ UNCHANGED <<is_sub_agent, keep_history, file_list, prompt, conversation_turns,
                   purpose, sleep_time, response, result, last_request, cycles, fails>>

NextAgent ==
    \/ Setup \/ BeginCycle \/ Chat \/ HandleResponse \/ ExecuteTool \/ Summarize
    \/ UserInput \/ AskMethodology \/ Cleanup

\* runs without files
Spec == InitAgent /\ [][NextAgent]_vars

\* runs with or without files
SpecFiles == InitFiles /\ [][NextAgent]_vars

----------------------------------------------------------------------------
(***************************************************************************)
(* Claims about the run-loop.                                              *)
(***************************************************************************)
EmptyInputRead == ~is_sub_agent /\ log.empty_read

\* C1 (as stated): once a top-level agent has read the user's empty input,
\* run returns 'Task completed' and no model call is made after that input,
\* whatever the user answers to the methodology question ('y', 'n', nothing).
C1_NoCallAfterEmptyInput ==
    EmptyInputRead =>
        /\ log.post_calls = {}
        /\ pc = "done" /\ log.answer \in Answers => result = "Task completed"

\* C1 (amended): once a top-level agent has read the user's empty input and
\* the methodology question was answered, run returns 'Task completed'; the
\* only model calls made after that input are those of the methodology
\* analysis, and only when the user answered 'y'.
C1_OnlyAnalysisAfterEmptyInput ==
    EmptyInputRead =>
        /\ log.post_calls \subseteq (IF log.answer = "y" THEN {"analysis"} ELSE {})
        /\ pc = "done" /\ log.answer \in Answers => result = "Task completed"

C1_Witness ==
    /\ EmptyInputRead /\ pc = "done" /\ result = "Task completed"
    /\ log.answer = "y" /\ log.post_calls = {"analysis"}
    /\ last_request.content = "methodology_analysis"

\* C2: whenever _summarize_and_clear_history returns, the transport holds no
\* turn but the system message, the summary is the one turn about to be
\* sent with it, and conversation_turns is 0, also when the recap request
\* or delete_chat failed.
C2_SummaryReplacesConversation ==
    [][Summarize =>
          /\ model'.messages = <<>> /\ model'.first_chat
          /\ model'.system_message = "system"
          /\ prompt' = Prompt("summary_context")
          /\ conversation_turns' = 0]_vars

----------------------------------------------------------------------------
(***************************************************************************)
(* The context-patch session: apply_patch of jarvis_code_agent/patch.py.   *)
(* A file's content is a name: "absent" (no such file), "empty" (the file  *)
(* handle_code_operation creates), "orig" (committed), "pre" (there        *)
(* before the session, uncommitted), "new" (merged code that differs).     *)
(* GitCommitTool, get_latest_commit_hash, get_commits_between and          *)
(* user_confirm are outside the source tree; they follow the               *)
(* specification's version-control collaborator (commit, current_revision, *)
(* commits_between) and its confirmation gates.                            *)
(***************************************************************************)
MaxBlocks == 2      \* <PATCH> blocks in one response

Bodies == {"x", "y"}

\* a block by what _parse_patch reads of it: its first line is 'File: <path>'
\* ("file"), something else ("other"), or the block has no line ("none")
FileBlock(path, body) == [first |-> "file", path |-> path, body |-> body]
OtherBlock == [first |-> "other", path |-> "", body |-> "x"]
EmptyBlock == [first |-> "none", path |-> "", body |-> ""]
Blocks == {FileBlock(p, "x") : p \in Paths} \cup {FileBlock("t.py", b) : b \in Bodies}
          \cup {OtherBlock, EmptyBlock}

\* result[filepath] = patch: a later block of the same path takes the entry
DictPut(d, path, body) ==
    IF \E i \in 1..Len(d) : d[i].path = path
    THEN [i \in 1..Len(d) |-> IF d[i].path = path
                              THEN [path |-> path, body |-> body] ELSE d[i]]
    ELSE Append(d, [path |-> path, body |-> body])

RECURSIVE ParseFrom(_, _, _)
ParseFrom(bs, i, d) ==
    IF i > Len(bs) THEN [kind |-> "ok", patches |-> d]
    ELSE IF bs[i].first = "none" THEN [kind |-> "raise", patches |-> <<>>]
    ELSE IF bs[i].first = "other" THEN ParseFrom(bs, i + 1, d)
    ELSE ParseFrom(bs, i + 1, DictPut(d, bs[i].path, bs[i].body))

\* lines 54-66
parse_patch(bs) == ParseFrom(bs, 1, <<>>)

\* os.path.dirname(filepath) is not ''
HasDir(path) == path = "d/n.py"

\* a commit hash: its first seven characters and the rest
Hashes == {<<1, 1>>, <<1, 2>>, <<2, 1>>}
Short(h) == h[1]

get_latest_commit_hash(r) ==
    IF r.commits = <<>> THEN <<>> ELSE r.commits[Len(r.commits)].hash

Position(r, h) ==
    IF \E i \in 1..Len(r.commits) : r.commits[i].hash = h
    THEN CHOOSE i \in 1..Len(r.commits) : r.commits[i].hash = h
    ELSE 0

\* the commits after start up to end, newest first
get_commits_between(r, start, end) ==
    LET a == Position(r, start)
        b == Position(r, end)
    IN IF a = 0 \/ b = 0 \/ b <= a THEN <<>>
       ELSE [k \in 1..(b - a) |-> <<r.commits[b - k + 1].hash,
                                    r.commits[b - k + 1].message>>]

Summary(kind) == [kind |-> kind, commits |-> <<>>]

\* lines 99-105
SuccessSummary(commits) ==
    IF commits # <<>>
    THEN [kind |-> "applied",
          commits |-> [k \in 1..Len(commits) |-> <<Short(commits[k][1]), commits[k][2]>>]]
    ELSE Summary("applied (no new commits)")

FileOutcomes == {"read_failed", "no_merged_section", "empty_merge", "orig", "new"}

\* lines 198-233: the work tree after handle_code_operation, and what it returns
handle_code_operation(work, path, outcome) ==
    IF work[path] = "absent" /\ ~HasDir(path)
    THEN [work |-> work, ret |-> "file operation failed"]
    ELSE LET w == IF work[path] = "absent" THEN [work EXCEPT ![path] = "empty"] ELSE work
         IN CASE outcome = "read_failed" -> [work |-> w, ret |-> "read failed"]
              [] outcome = "no_merged_section" -> [work |-> w, ret |-> "file operation failed"]
              [] outcome = "empty_merge" -> [work |-> w, ret |-> "merge failed"]
              [] OTHER -> [work |-> [w EXCEPT ![path] = outcome], ret |-> ""]

\* git add .
GitAddAll(r) == [r EXCEPT !.index = r.work]

\* lines 133-136: git reset --hard HEAD, git clean -fd
revert_change(r) ==
    LET hard == [r EXCEPT !.index = r.head,
                          !.work = [p \in Paths |->
                                      IF r.head[p] # "absent" \/ r.index[p] # "absent"
                                      THEN r.head[p] ELSE r.work[p]]]
    IN [hard EXCEPT !.work = [p \in Paths |-> IF hard.index[p] = "absent" THEN "absent"
                                              ELSE hard.work[p]]]

\* the commit tool when it succeeds: everything is staged and committed
GitCommit(r, h) ==
    IF r.work = r.head /\ r.index = r.head THEN r
    ELSE [r EXCEPT !.index = r.work, !.head = r.work,
                   !.commits = Append(@, [hash |-> h, message |-> "patch"])]

UsedHashes(r) == {r.commits[i].hash : i \in 1..Len(r.commits)}

Trees == {[p \in Paths |-> IF p = "t.py" THEN t ELSE IF p = "d/n.py" THEN d ELSE n] :
             t \in {"orig", "pre"}, d \in {"absent", "pre"}, n \in {"absent", "pre"}}
HeadTree == [p \in Paths |-> IF p = "t.py" THEN "orig" ELSE "absent"]

InitSession ==
    /\ spc = "start"
    /\ confirm \in BOOLEAN
    /\ blocks \in SeqsUpTo(Blocks, MaxBlocks)
    /\ \E w \in Trees :
          repo = [head |-> HeadTree, index |-> HeadTree, work |-> w,
                  commits |-> <<[hash |-> <<1, 1>>, message |-> "init"]>>]
    /\ base = repo
    /\ spatches = <<>> /\ start_hash = <<>> /\ diff = "none"
    /\ final_ret = NoSummary /\ returned = NoSummary /\ slog = NoSessionLog
    /\ XIdle /\ FIdle /\ AIdle /\ PIdle /\ CIdle /\ TIdle /\ EIdle /\ LIdle

\* lines 70-77: parse, record the baseline revision
SessionStart ==
    /\ spc = "start"
    /\ LET r == parse_patch(blocks)
       IN IF r.kind = "raise"
          THEN /\ returned' = Summary("")
               /\ spc' = "done"
               /\ UNCHANGED <<spatches, start_hash>>
          ELSE /\ spatches' = r.patches
               /\ start_hash' = get_latest_commit_hash(repo)
               /\ spc' = "files"
               /\ UNCHANGED returned
    /\ UNCHANGED <<confirm, blocks, repo, base, diff, final_ret, slog>>
    /\ UNCHANGED <<xvars, fvars, avars, pvars, cvars, tvars, evars, lvars>>

\* lines 115-131: git checkout HEAD -- <file> for a path of the index (a failure
\* of the command is caught), os.remove for any other; then git clean -f -- <file>
revert_file(r, path) ==
    IF r.index[path] # "absent"
    THEN IF r.head[path] # "absent"
         THEN [r EXCEPT !.index[path] = r.head[path], !.work[path] = r.head[path]]
         ELSE r
    ELSE [r EXCEPT !.work[path] = "absent"]

\* where the try block of lines 81-84 raises: nowhere, at the output call of
\* line 82, or at the one of line 84 (handle_code_operation itself never raises)
FileRaises == {"none", "line 82", "line 84"}

\* lines 80-87: one file of the loop
SessionFile ==
    /\ spc = "files" /\ spatches # <<>>
    /\ \E outcome \in FileOutcomes, raises \in FileRaises :
          LET path == spatches[1].path
              r == IF raises = "line 82" THEN [work |-> repo.work, ret |-> ""]
                   ELSE handle_code_operation(repo.work, path, outcome)
              after == [repo EXCEPT !.work = r.work]
          IN /\ repo' = IF raises = "none" THEN after ELSE revert_file(after, path)
             \* the returned text is dropped (line 83): noted is whether it was an error
             /\ slog' = [slog EXCEPT !.handled =
                             Append(@, [path |-> path, failed |-> r.ret # "",
                                        reverted |-> raises # "none"])]
    /\ spatches' = Tail(spatches)
    /\ UNCHANGED <<spc, confirm, blocks, base, start_hash, diff, final_ret, returned>>
    /\ UNCHANGED <<xvars, fvars, avars, pvars, cvars, tvars, evars, lvars>>

\* lines 89-91 and 108-109 with get_diff (138-153)
SessionDiff ==
    /\ spc = "files" /\ spatches = <<>>
    /\ \E outcome \in {"ok", "add_failed", "diff_failed"} :
          /\ repo' = IF outcome = "add_failed" THEN repo ELSE GitAddAll(repo)
          /\ diff' = IF outcome # "ok" THEN "error"
                     ELSE IF repo.work = repo.head THEN "empty" ELSE "changes"
    /\ IF diff' = "empty"
       THEN final_ret' = Summary("no changes to commit") /\ spc' = "reply"
       ELSE UNCHANGED final_ret /\ spc' = "workflow"
    /\ UNCHANGED <<confirm, blocks, base, spatches, start_hash, returned, slog>>
    /\ UNCHANGED <<xvars, fvars, avars, pvars, cvars, tvars, evars, lvars>>

\* lines 93-107 with handle_commit_workflow (154-165)
SessionCommitWorkflow ==
    /\ spc = "workflow"
    /\ \E yes \in (IF confirm THEN BOOLEAN ELSE {TRUE}) :
          IF ~yes
          THEN /\ repo' = revert_change(repo)
               /\ final_ret' = Summary("I don't want to commit the code")
               /\ slog' = [slog EXCEPT !.asked = @ + 1, !.accepted = "no"]
          ELSE \E success \in BOOLEAN : \E h \in Hashes \ UsedHashes(repo) :
               /\ repo' = IF success THEN GitCommit(repo, h) ELSE repo
               /\ final_ret' =
                     IF success
                     THEN SuccessSummary(get_commits_between(repo', start_hash,
                                                 get_latest_commit_hash(repo')))
                     ELSE Summary("I don't want to commit the code")
               /\ slog' = [slog EXCEPT !.asked = IF confirm THEN @ + 1 ELSE @,
                                       !.accepted = IF confirm THEN "yes" ELSE "not asked",
                                       !.commit_ok = IF success THEN "yes" ELSE "no"]
    /\ spc' = "reply"
    /\ UNCHANGED <<confirm, blocks, base, spatches, start_hash, diff, returned>>
    /\ UNCHANGED <<xvars, fvars, avars, pvars, cvars, tvars, evars, lvars>>

SessionReplyUnasked ==
    /\ spc = "reply"
    /\ IF final_ret = Summary("no changes to commit")
       THEN returned' = final_ret /\ UNCHANGED slog
       ELSE \E use \in BOOLEAN :
               /\ returned' = IF use THEN final_ret ELSE Summary("custom reply")
               /\ slog' = [slog EXCEPT !.reply_asked = @ + 1,
                                       !.reply_use = IF use THEN "yes" ELSE "no"]
    /\ spc' = "done"
    /\ UNCHANGED <<confirm, blocks, repo, base, spatches, start_hash, diff, final_ret>>
    /\ UNCHANGED <<xvars, fvars, avars, pvars, cvars, tvars, evars, lvars>>

\* lines 111-114: the last confirmation
SessionReply ==
    /\ spc = "reply"
    /\ \E use \in BOOLEAN :
          /\ returned' = IF use THEN final_ret ELSE Summary("custom reply")
          /\ slog' = [slog EXCEPT !.reply_asked = @ + 1,
                                  !.reply_use = IF use THEN "yes" ELSE "no"]
    /\ spc' = "done"
    /\ UNCHANGED <<confirm, blocks, repo, base, spatches, start_hash, diff, final_ret>>
    /\ UNCHANGED <<xvars, fvars, avars, pvars, cvars, tvars, evars, lvars>>

NextSession ==
    \/ SessionStart \/ SessionFile \/ SessionDiff \/ SessionCommitWorkflow
    \/ SessionReply

SpecSession == InitSession /\ [][NextSession]_vars

----------------------------------------------------------------------------
(***************************************************************************)
(* Claims about the context-patch session.                                 *)
(***************************************************************************)
WorkflowOver == spc \in {"reply", "done"} /\ slog.accepted # "none"
Accepted == diff = "changes" /\ slog.accepted \in {"yes", "not asked"}
NewHead == get_latest_commit_hash(repo)
NewCommits == get_commits_between(repo, start_hash, NewHead)
CommitsListed ==
    /\ NewHead # start_hash /\ NewHead # get_latest_commit_hash(base)
    /\ NewCommits # <<>>
    /\ final_ret.kind = "applied"
    /\ Len(final_ret.commits) = Len(NewCommits)
    /\ \A k \in 1..Len(NewCommits) :
          final_ret.commits[k] = <<Short(NewCommits[k][1]), NewCommits[k][2]>>

\* C10: after the workflow of a session with a non-empty diff and
\* an accepted commit, a new commit exists, the commits between the recorded
\* baseline and the new head are not empty, and the summary lists them.
C10_AcceptedMeansCommitted == WorkflowOver /\ Accepted => CommitsListed

\* C11: after the user declined the commit, no commit was created and the
\* working tree is the one the session started with, for every file: those
\* the session edited or created and those it did not touch.
C11_DeclineRestoresTree ==
    spc \in {"reply", "done"} /\ slog.accepted = "no" =>
        /\ repo.commits = base.commits
        /\ repo.work = base.work

\* C26 as stated: the commit workflow runs exactly when the working tree
\* differs from the baseline after the files were handled; when nothing
\* changed, and when the diff command failed, the session reports 'no changes
\* to commit', asks no commit confirmation and creates no commit.
C26_WorkflowIffTreeChanged ==
    /\ spc = "workflow" => diff = "changes" /\ repo.work # repo.head
    /\ spc \in {"reply", "done"} /\ diff \in {"empty", "error"} =>
          /\ final_ret = Summary("no changes to commit")
          /\ slog.asked = 0 /\ slog.commit_ok = "none"
          /\ repo.commits = base.commits

\* C28 as stated: a file whose handling failed is rolled back: its state in
\* the working tree is the one the session started with (a file the session
\* created is gone again), whatever happened to the other files.
Failed(i) == slog.handled[i].failed

C28_FailedFileReverted ==
    spc = "files" =>
       \A i \in 1..Len(slog.handled) :
           Failed(i) => repo.work[slog.handled[i].path] = base.work[slog.handled[i].path]

\* C29 as stated: every <PATCH> block that declares a file path produces a
\* patch of its own, in the order of the response: the patches of a path are
\* the bodies of the blocks that declare it.
BodiesDeclared(path) ==
    LET RECURSIVE From(_)
        From(i) == IF i > Len(blocks) THEN <<>>
                   ELSE IF blocks[i].first = "file" /\ blocks[i].path = path
                   THEN <<blocks[i].body>> \o From(i + 1)
                   ELSE From(i + 1)
    IN From(1)
BodiesParsed(path) ==
    LET RECURSIVE From(_)
        From(i) == IF i > Len(spatches) THEN <<>>
                   ELSE IF spatches[i].path = path
                   THEN <<spatches[i].body>> \o From(i + 1)
                   ELSE From(i + 1)
    IN From(1)

C29_EveryBlockIsAPatch ==
    spc = "files" /\ slog.handled = <<>> =>
       \A path \in Paths : BodiesParsed(path) = BodiesDeclared(path)

\* PatchOutputHandler.can_handle (lines 17-20): the truth of the parsed dict,
\* or the exception of _parse_patch, which nothing catches here
can_handle(bs) ==
    LET r == parse_patch(bs)
    IN IF r.kind = "raise" THEN "raise"
       ELSE IF r.patches # <<>> THEN "true" ELSE "false"

FilePaths(bs) == {bs[i].path : i \in {j \in 1..Len(bs) : bs[j].first = "file"}}
HandledPaths == {slog.handled[i].path : i \in 1..Len(slog.handled)}

\* C39: a block whose first line is not 'File: <path>', an empty block
\* included, is skipped: can_handle and apply_patch do not raise on the
\* response, and the blocks that do name a file are parsed and applied
C39_InvalidBlockSkipped ==
    /\ can_handle(blocks) # "raise"
    /\ spc = "files" /\ slog.handled = <<>> =>
          {spatches[i].path : i \in 1..Len(spatches)} = FilePaths(blocks)
    /\ spc = "done" => FilePaths(blocks) \subseteq HandledPaths

\* C31: on every outcome of the session (committed, not committed, no
\* changes) the user is asked exactly once whether to use the summary; when
\* the user says yes the summary is returned as it is, otherwise the user's
\* own text is returned.
Outcomes == {"applied", "applied (no new commits)", "I don't want to commit the code",
             "no changes to commit"}

C31_ReplyConfirmedOnce ==
    /\ spc = "reply" => final_ret.kind \in Outcomes /\ slog.reply_asked = 0
    /\ spc = "done" /\ final_ret.kind \in Outcomes =>
          /\ slog.reply_asked = 1
          /\ slog.reply_use = "yes" => returned = final_ret
          /\ slog.reply_use = "no" => returned = Summary("custom reply")
          /\ slog.reply_use \in {"yes", "no"}

C31_Witness ==
    /\ spc = "done" /\ final_ret = Summary("no changes to commit")
    /\ slog.reply_asked = 1 /\ slog.reply_use = "no"
    /\ returned = Summary("custom reply")

\* C33 as stated: whenever the session reports that the code was not
\* committed, after a decline or after a failure of the commit tool, the
\* working tree and the index are those of the baseline revision.
NotCommitted ==
    spc \in {"reply", "done"} /\ final_ret = Summary("I don't want to commit the code")

C33_NotCommittedMeansReset ==
    NotCommitted => repo.work = repo.head /\ repo.index = repo.head

----------------------------------------------------------------------------
(***************************************************************************)
(* Plan application: PatchHandler.handle_patch_application and apply_patch *)
(* of jarvis_coder/patch_handler.py over a plan of two files.  Each file   *)
(* gets its own model response; its patches go through apply_file_patch.   *)
(***************************************************************************)
MaxRetries == 1     \* times the user chooses "retry" in one plan

\* git reset --hard: every tracked path goes back to HEAD
GitResetHard(w) ==
    IF w.head.ex THEN [w EXCEPT !.index = w.head, !.disk = w.head, !.direx = TRUE]
    ELSE IF w.index.ex
    THEN [w EXCEPT !.index = Absent, !.disk = Absent,
                   !.direx = IF w.kind = "own" /\ w.disk.ex THEN FALSE ELSE @]
    ELSE w

\* git reset <path>; git checkout -- <path>  (lines 42-43, 71-72, 146-147)
Rollback(w) == GitCheckout(GitReset(w))

\* line 145: not patches, apply_file_patch, _confirm_and_apply_changes
Attempt(w, patches, accept) ==
    IF patches = <<>> THEN [w |-> w, res |-> "none"]
    ELSE LET r == apply_file_patch(w, patches)
         IN IF r.res # "true" THEN [w |-> r.w, res |-> r.res]
            ELSE IF accept THEN [w |-> r.w, res |-> "true"]
            ELSE [w |-> Rollback(r.w), res |-> "declined"]

PlanWorlds ==
    {World(kind, head, head, disk) :
        kind \in {"root", "dir"}, head \in {Absent, File(<<"a", "b">>)},
        disk \in {Absent, File(<<"a", "b">>), File(<<"b">>)}}

\* the patch lists a response may carry: anchored, whole-file and delete shapes
PlanPatches == {Patch(<<"a">>, <<"b">>), Patch(<<>>, <<"a", "a">>), Patch(<<>>, <<>>)}
PlanPatchLists == SeqsUpTo(PlanPatches, MaxPatches)

InitPlan ==
    /\ ppc = "files"
    /\ pworlds \in [Files -> PlanWorlds]
    /\ pworlds["f1"].kind = "dir"
    /\ pbase = pworlds
    /\ pplan = <<"f1", "f2">>
    /\ pstat = [f \in Files |-> "pending"]
    /\ pwant = [f \in Files |-> Absent]
    /\ pretries = 0 /\ pres = "none"
    /\ XIdle /\ FIdle /\ AIdle /\ SIdle /\ CIdle /\ TIdle /\ EIdle /\ LIdle

RetryChoices == {"continue", "skip", "break"}

\* lines 93-160: one pass of the while loop for the current file
PlanFile ==
    /\ ppc = "files" /\ pplan # <<>>
    /\ \E patches \in PlanPatchLists, accept \in BOOLEAN,
          act \in RetryChoices :
          LET f == Head(pplan)
              a == Attempt(pworlds[f], patches, accept)
          IN CASE a.res = "raise" ->
                    /\ pworlds' = [pworlds EXCEPT ![f] = a.w]
                    /\ pstat' = [pstat EXCEPT ![f] = "failed"]
                    /\ pres' = "raise" /\ ppc' = "done"
                    /\ UNCHANGED <<pplan, pwant, pretries>>
               [] a.res = "true" ->
                    /\ pworlds' = [pworlds EXCEPT ![f] = a.w]
                    /\ pstat' = [pstat EXCEPT ![f] = "applied"]
                    /\ pwant' = [pwant EXCEPT ![f] = a.w.disk]
                    /\ pplan' = Tail(pplan)
                    /\ UNCHANGED <<ppc, pres, pretries>>
               [] OTHER ->
                    /\ pworlds' = [pworlds EXCEPT ![f] = Rollback(a.w)]
                    /\ pstat' = [pstat EXCEPT ![f] = IF a.res = "false" THEN "missed"
                                                     ELSE "failed"]
                    /\ CASE act = "break" ->
                              ppc' = "broken" /\ UNCHANGED <<pplan, pretries>>
                         [] act = "skip" ->
                              pplan' = Tail(pplan) /\ UNCHANGED <<ppc, pretries>>
                         [] OTHER ->
                              /\ pretries < MaxRetries
                              /\ pretries' = pretries + 1
                              /\ UNCHANGED <<ppc, pplan>>
                    /\ UNCHANGED <<pwant, pres>>
    /\ UNCHANGED pbase
    /\ UNCHANGED <<xvars, fvars, avars, svars, cvars, tvars, evars, lvars>>

\* lines 182-194: after apply_patch returned
PlanFinish ==
    /\ \/ ppc = "broken"
       \/ ppc = "files" /\ pplan = <<>>
    /\ \E keep \in BOOLEAN :
          IF ppc = "files" /\ keep
          THEN pres' = "true" /\ UNCHANGED pworlds
          ELSE /\ pres' = "false"
               /\ pworlds' = [f \in Files |-> GitResetHard(pworlds[f])]
    /\ ppc' = "done"
    /\ UNCHANGED <<pbase, pplan, pstat, pwant, pretries>>
    /\ UNCHANGED <<xvars, fvars, avars, svars, cvars, tvars, evars, lvars>>

NextPlan == PlanFile \/ PlanFinish

SpecPlan == InitPlan /\ [][NextPlan]_vars

\* C12: when the first file's patches matched and were accepted, the second
\* file's old_code did not match and the user went on (skip, then keep), the
\* first file holds its change and the second file holds its pre-session
\* content.
C12_FilesIndependent ==
    ppc = "done" /\ pres = "true" /\ pstat["f1"] = "applied" /\ pstat["f2"] = "missed" =>
        /\ pworlds["f1"].disk = pwant["f1"]
        /\ pworlds["f2"].disk = pbase["f2"].disk

\* C32 as stated: a session that returns False (the user stopped, or did
\* not keep the changes) has discarded everything, the changes of files
\* accepted earlier included: each such file is as in HEAD or as it was
\* before the session; a session that returns True went through every file
\* and each accepted file still holds what the user accepted.
PlanStopped == ppc = "done" /\ pplan # <<>> /\ pres # "raise"

C32_RejectedDiscardsAll ==
    /\ PlanStopped => pres = "false"
    /\ ppc = "done" /\ pres = "false" =>
          \A f \in Files :
             /\ pworlds[f].index = pworlds[f].head
             /\ pstat[f] = "applied" => pworlds[f].disk \in {pbase[f].head, pbase[f].disk}
    /\ ppc = "done" /\ pres = "true" =>
          /\ pplan = <<>>
          /\ \A f \in Files : pstat[f] = "applied" => pworlds[f].disk = pwant[f]

----------------------------------------------------------------------------
(***************************************************************************)
(* One call of Agent._call_model (agent.py 109-122), attempt by attempt.   *)
(* while_success is outside the source tree.  It follows the               *)
(* specification's transport retry: after an exception it waits and calls  *)
(* again, the wait starting at the sleep_time it is given (5 at line 113), *)
(* doubling, capped at 30.  Every iteration of _call_model's loop is a new *)
(* call of while_success.                                                  *)
(***************************************************************************)
MaxAttempts == 6        \* failed attempts in one call of _call_model

WhileSuccessSleep == 5  \* agent.py:113
WhileSuccessCap == 30

\* the next wait of one while_success call
WhileSuccessNext(t) == IF 2 * t > WhileSuccessCap THEN WhileSuccessCap ELSE 2 * t

InitCallModel ==
    /\ cpc = "call" /\ csleep = InitialSleep /\ cwaits = <<>> /\ cret = "none"
    /\ cwsleep = WhileSuccessSleep
    /\ XIdle /\ FIdle /\ AIdle /\ SIdle /\ PIdle /\ TIdle /\ EIdle /\ LIdle

\* chat raised: while_success waits and calls again; sleep_time is not touched
CallRaises ==
    /\ cpc = "call" /\ Len(cwaits) < MaxAttempts
    /\ cwaits' = Append(cwaits, [after |-> "raise", wait |-> cwsleep])
    /\ cwsleep' = WhileSuccessNext(cwsleep)
    /\ UNCHANGED <<cpc, csleep, cret>>
    /\ UNCHANGED <<xvars, fvars, avars, svars, pvars, tvars, evars, lvars>>

\* lines 116-122: an empty reply; line 113 then calls while_success anew
CallEmpty ==
    /\ cpc = "call" /\ Len(cwaits) < MaxAttempts
    /\ cwaits' = Append(cwaits, [after |-> "empty", wait |-> csleep])
    /\ csleep' = NextSleep(csleep)
    /\ cwsleep' = WhileSuccessSleep
    /\ UNCHANGED <<cpc, cret>>
    /\ UNCHANGED <<xvars, fvars, avars, svars, pvars, tvars, evars, lvars>>

\* lines 114-115: a reply that is not empty
CallReturns ==
    /\ cpc = "call"
    /\ cret' = "text" /\ cpc' = "returned"
    /\ UNCHANGED <<csleep, cwaits, cwsleep>>
    /\ UNCHANGED <<xvars, fvars, avars, svars, pvars, tvars, evars, lvars>>

NextCallModel == CallRaises \/ CallEmpty \/ CallReturns

SpecCallModel == InitCallModel /\ [][NextCallModel]_vars

RECURSIVE Pow2(_)
Pow2(n) == IF n = 0 THEN 1 ELSE 2 * Pow2(n - 1)
Backoff(k) == IF 5 * Pow2(k - 1) > 30 THEN 30 ELSE 5 * Pow2(k - 1)

\* C13: the wait before the k-th retry of a failed model call is
\* min(5 * 2^(k-1), 30), and _call_model returns only a non-empty response.
C13_KthRetryWait ==
    /\ \A k \in 1..Len(cwaits) : cwaits[k].wait = Backoff(k)
    /\ cpc = "returned" => cret = "text"

----------------------------------------------------------------------------
(***************************************************************************)
(* Claims about the run-loop, over the record of what run did.             *)
(***************************************************************************)
Events == log.events
Interrupted(i) == Events[i].e = "user" /\ Events[i].r = "__interrupt__"

\* C14: once the user entered the interrupt value, run does nothing more
\* (no model call, no tool, no methodology question, no summary) but the
\* cleanup, and its result is 'Task cancelled by user'.
C14_InterruptEndsRun ==
    \A i \in 1..Len(Events) :
        Interrupted(i) =>
            /\ i = Len(Events)
            /\ pc \in {"finally", "done"}
            /\ result = "Task cancelled by user"
            /\ log.answer = "none" /\ log.post_calls = {}

C14_Witness ==
    /\ pc = "done" /\ Len(Events) >= 2 /\ Interrupted(Len(Events))
    /\ result = "Task cancelled by user" /\ log.tools > 0

\* the reply of a request of the run-loop's model step
MainReply(i) == Events[i].e = "chat" /\ Events[i].p = "main" /\ Events[i].r \in Responses
MainChat(i) == Events[i].e = "chat" /\ Events[i].p = "main"
\* what the run-loop makes of each reply (lines 441-453)
SentinelReplies == {r \in Responses : HasSentinel(ResponseText(r))}
RaiseReplies ==
    {r \in Responses \ SentinelReplies : extract_tool_calls(ResponseText(r)).kind = "raise"}
CallReplies ==
    {r \in Responses \ (SentinelReplies \cup RaiseReplies) :
        Len(extract_tool_calls(ResponseText(r)).calls) > 0}
YieldsCall(i) == MainReply(i) /\ Events[i].r \in CallReplies
NoCallNoSentinel(i) ==
    MainReply(i) /\ Events[i].r \notin SentinelReplies \cup RaiseReplies \cup CallReplies

\* C15: a response of the model step from which a tool call is extracted is
\* followed at once by the tool's execution, and the tool's text is the next
\* message sent to the model, with no user input in between; the user is
\* asked only right after a response with neither a tool call nor the
\* sentinel.
C15_ToolCallLoop ==
    /\ \A i \in 1..Len(Events) :
          YieldsCall(i) =>
             /\ i < Len(Events) => Events[i + 1].e = "tool"
             /\ i + 1 < Len(Events) => MainChat(i + 2) /\ Events[i + 2].c = Events[i + 1].r
             /\ i = Len(Events) => pc \in {"respond", "tool"}
    /\ \A j \in 1..Len(Events) :
          Events[j].e = "user" => j > 1 /\ NoCallNoSentinel(j - 1)

C15_Witness ==
    /\ \E i \in 1..Len(Events) :
          /\ YieldsCall(i) /\ i + 2 <= Len(Events)
          /\ MainReply(i + 2) /\ Events[i + 2].c = "tool_result"
    /\ Events[Len(Events)].e = "user"

\* C17: a tool's error does not end the task: the tool is not run again for
\* it, the error's text is the next message sent to the model, and the run
\* has no result yet when that request is made.
ToolError(i) == Events[i].e = "tool" /\ Events[i].r = "tool_error"

C17_ToolErrorContinues ==
    \A i \in 1..Len(Events) :
        ToolError(i) =>
           /\ i < Len(Events) => MainChat(i + 1) /\ Events[i + 1].c = "tool_error"
           /\ i = Len(Events) => pc \in {"cycle", "chat"} /\ result = "none" /\ prompt.text = "tool_error"
           /\ i > 1 /\ YieldsCall(i - 1)

C17_Witness ==
    \E i \in 1..Len(Events) :
        ToolError(i) /\ i < Len(Events) /\ MainReply(i + 1) /\ log.tools = 1

\* C19: a failed extraction is not dropped: its error text is the next
\* message sent to the model, and neither a tool nor the user comes before
\* that request.
ExtractError(i) == Events[i].e = "extract_error"

C19_ExtractErrorIsNextPrompt ==
    \A i \in 1..Len(Events) :
        ExtractError(i) =>
           /\ i > 1 /\ MainReply(i - 1) /\ Events[i - 1].r \in RaiseReplies
           /\ i < Len(Events) => MainChat(i + 1) /\ Events[i + 1].c = "tool_call_error"
           /\ i = Len(Events) => pc \in {"cycle", "chat"} /\ result = "none" /\ prompt.text = "tool_call_error"

C19_Witness ==
    \E i \in 1..Len(Events) :
        ExtractError(i) /\ i < Len(Events) /\ MainReply(i + 1) /\ log.tools = 0

\* C16: run hands no exception to its caller: whatever is raised while it
\* runs, run returns, and after an exception it returns 'Task failed'.
Propagated == result \in {Raise("KeyboardInterrupt"), Raise("Exception")}
Faulted(i) ==
    \/ Events[i].e = "exception"
    \/ Events[i].e = "ask" /\ Events[i].r \in InputFaults

C16_NoExceptionPropagates ==
    pc = "done" =>
       /\ ~Propagated
       /\ (\E i \in 1..Len(Events) : Faulted(i)) => result = "Task failed"

\* C18: every request to the model that fails in the transport is made
\* again: the event after a failed request is the same request (same purpose,
\* same content), and while it is the last event the agent is still at the
\* request.
TransportFailed(i) == Events[i].e = "chat" /\ Events[i].r \in {"create_failed", "send_failed"}
SameRequest(i, j) ==
    Events[j].e = "chat" /\ Events[j].p = Events[i].p /\ Events[j].c = Events[i].c

C18_FailedCallIsRetried ==
    \A i \in 1..Len(Events) :
        TransportFailed(i) =>
           /\ i < Len(Events) => SameRequest(i, i + 1)
           /\ i = Len(Events) => pc = "chat"

\* a request for the task summary, and the one that was answered
SummaryChat(i) ==
    Events[i].e = "chat" /\ Events[i].p = "summary" /\ Events[i].c = "summary_report"
Completed == pc = "done" /\ log.empty_read /\ log.answer \in Answers

\* C25: when the task completes, a sub-agent asks the model for the summary
\* of the task and run returns the model's reply to that request; a
\* top-level agent returns 'Task completed' and never asks for a summary.
C25_SubAgentReturnsSummary ==
    /\ Completed =>
          IF is_sub_agent
          THEN /\ Len(Events) > 0 /\ SummaryChat(Len(Events))
               /\ Events[Len(Events)].r \in RepliesFor("summary")
               /\ result = Events[Len(Events)].r
          ELSE result = "Task completed"
    /\ ~is_sub_agent => \A i \in 1..Len(Events) : ~SummaryChat(i)

C25_Witness ==
    /\ Completed /\ is_sub_agent /\ log.answer = "y"
    /\ SummaryChat(Len(Events)) /\ result = "plain"
    /\ \E i \in 1..Len(Events) : SummaryChat(i) /\ Events[i].r = "send_failed"

\* a reply that carries the sentinel and a complete tool-call block
SentinelCallReplies ==
    {r \in SentinelReplies :
        \E k \in 1..(Len(ResponseText(r)) - Len(ToolBlock) + 1) :
            SubSeq(ResponseText(r), k, k + Len(ToolBlock) - 1) = ToolBlock}
SentinelAndCall(i) == MainReply(i) /\ Events[i].r \in SentinelCallReplies
RecapChat(i) == Events[i].e = "chat" /\ Events[i].p = "recap"

\* C34: after a reply with both the sentinel and a tool call the tool is not
\* executed: the recap is requested, and the next message sent to the model
\* is the summary prompt, or the previous prompt when the recap failed.
C34_SentinelBeforeToolCall ==
    \A i \in 1..Len(Events) :
        SentinelAndCall(i) =>
           /\ i < Len(Events) => RecapChat(i + 1)
           /\ i = Len(Events) => pc \in {"respond", "summarize"}
           /\ i + 1 < Len(Events) =>
                 /\ MainChat(i + 2)
                 /\ Events[i + 2].c = IF Events[i + 1].r = "recap"
                                      THEN "summary_context" ELSE Events[i].c
           /\ i + 1 = Len(Events) => pc \in {"cycle", "chat"}

C34_Witness ==
    /\ \E i \in 1..Len(Events) :
          /\ SentinelAndCall(i) /\ i + 2 <= Len(Events)
          /\ Events[i + 1].r = "send_failed"
          /\ MainReply(i + 2) /\ Events[i + 2].c = "task"
    /\ \E i \in 1..Len(Events) : MainReply(i) /\ Events[i].r = "sentinel+tool"
    /\ log.tools = 0

\* the files apply_patch has left behind without an accepted change
Unaccepted == {f \in Files : pstat[f] \in {"missed", "failed"}}
InApplyPatch == ppc \in {"files", "broken"}

\* C37: while apply_patch runs and when it returns, a file whose last pass
\* was not accepted carries no modification (it holds what it held before the
\* session, or its committed content); after 'stop' no later file was touched
\* and the loop is left, after 'skip' the later files are still processed
C37_NoUnacceptedModification ==
    InApplyPatch =>
       /\ \A f \in Unaccepted :
             /\ pworlds[f].disk \in {pbase[f].disk, pbase[f].head}
             /\ pworlds[f].index = pbase[f].head
       /\ ppc = "broken" =>
             \A i \in 2..Len(pplan) :
                pstat[pplan[i]] = "pending" /\ pworlds[pplan[i]] = pbase[pplan[i]]
       /\ ppc = "files" /\ pplan = <<>> => \A f \in Files : pstat[f] # "pending"

\* the chat calls whose request went out
SentChats == {i \in 1..Len(Events) : Events[i].e = "chat" /\ Events[i].r # "create_failed"}

\* C35: the files of file_list that were uploaded are attached to the first
\* chat request of the task: the history reset at the start of run keeps them
C35_UploadedFilesAttached ==
    Cardinality(SentChats) = 1 => last_request.contentFiles = log.uploaded

\* C36: run reaches its end through the finally clause only; the clause calls
\* delete_chat exactly once, after the result is determined, when keep_history
\* is False and never when it is True, and it leaves the returned value alone
C36_CleanupDeletesOnce ==
    /\ [](log.cleanup_deletes = IF pc = "done" /\ ~keep_history THEN 1 ELSE 0)
    /\ [][pc = "finally" => pc' = "done" /\ result' = result]_vars
    /\ [][pc' = "done" => pc \in {"finally", "done"}]_vars

C36_Witness ==
    /\ pc = "done" /\ ~keep_history /\ log.cleanup_deletes = 1
    /\ result = "Task failed"
    /\ \E i \in 1..Len(Events) : MainReply(i)

----------------------------------------------------------------------------
(***************************************************************************)
(* CodeModifyTool.execute (tools/code_modify_agent.py): the three          *)
(* arguments are read from args, PatchHandler.handle_patch_application is  *)
(* called, and its result becomes the tool's result; every Exception is    *)
(* turned into a failure result.                                           *)
(***************************************************************************)
ArgKeys == {"task", "raw_plan", "structured_plan"}

\* the parameters of handle_patch_application (patch_handler.py line 166), none
\* of which has a default, and the keywords execute passes (lines 46-49)
HandlerParams == {"feature", "raw_plan", "structed_plan"}
CallKeywords  == {"feature", "structed_plan"}

\* Python's binding of a call: a parameter without a value is a TypeError
Bind(params, keywords) == IF params \subseteq keywords THEN "bound" ELSE "TypeError"

ArgValues(k) ==
    IF k = "structured_plan" THEN {"missing", "no files", "one file", "two files"}
    ELSE {"missing", "text", "empty text"}

HandlerOutcomes == {"true", "false", "raise"}

Failure(text) == [success |-> FALSE, error |-> text]
Success == [success |-> TRUE, error |-> "none"]

InitExecute ==
    /\ etool \in [pc : {"args"},
                  args : {a \in [ArgKeys -> UNION {ArgValues(k) : k \in ArgKeys}] :
                             \A k \in ArgKeys : a[k] \in ArgValues(k)},
                  handler : HandlerOutcomes, ran : {FALSE}, res : {NoResult}]
    /\ XIdle /\ FIdle /\ AIdle /\ SIdle /\ PIdle /\ CIdle /\ TIdle /\ LIdle

\* lines 36-38: args["task"], args["raw_plan"], args["structured_plan"]
ExecuteReadArgs ==
    /\ etool.pc = "args"
    /\ etool' = IF \E k \in ArgKeys : etool.args[k] = "missing"
                THEN [etool EXCEPT !.pc = "done", !.res = Failure("KeyError")]
                ELSE [etool EXCEPT !.pc = "call"]
    /\ UNCHANGED <<xvars, fvars, avars, svars, pvars, cvars, tvars, lvars>>

\* lines 43-72: the call of handle_patch_application, the result, the handler
ExecuteCallHandler ==
    /\ etool.pc = "call"
    /\ etool' = IF Bind(HandlerParams, CallKeywords) = "TypeError"
                THEN [etool EXCEPT !.pc = "done", !.res = Failure("TypeError")]
                ELSE [etool EXCEPT !.pc = "done", !.ran = TRUE,
                                   !.res = CASE etool.handler = "true" -> Success
                                             [] etool.handler = "false" ->
                                                  Failure("cancelled or failed")
                                             [] OTHER -> Failure("Exception")]
    /\ UNCHANGED <<xvars, fvars, avars, svars, pvars, cvars, tvars, lvars>>

NextExecute == ExecuteReadArgs \/ ExecuteCallHandler

SpecExecute == InitExecute /\ [][NextExecute]_vars

WellFormed == \A k \in ArgKeys : etool.args[k] # "missing"

\* C38: execute returns a result for every args; the result has success = true
\* exactly when handle_patch_application ran and returned True, which is the
\* case for well-formed arguments whose patches are applied and kept; otherwise
\* it has success = false and an error text
C38_SuccessIffHandlerTrue ==
    etool.pc = "done" =>
       /\ etool.res.success <=> (etool.ran /\ etool.handler = "true")
       /\ WellFormed /\ etool.handler = "true" => etool.res.success
       /\ ~etool.res.success => etool.res.error # "none"

----------------------------------------------------------------------------
(***************************************************************************)
(* _parse_file_selection (jarvis_code_agent/file_select.py): the selection *)
(* expression the user types for a numbered list of max_index files.       *)
(***************************************************************************)
MaxSelLen == 4   \* characters of the selection expression
MaxIndex == 3    \* files in the numbered list

Digits == {"0", "2", "3"}
SelChars == Digits \cup {",", "-", " "}
DigitValue(c) == CASE c = "0" -> 0 [] c = "2" -> 2 [] c = "3" -> 3

\* line 29: "".join(input_str.split())
StripWhitespace(str) == SelectSeq(str, LAMBDA c : c # " ")

\* str.split(sep): the pieces between the separators, empty ones included
RECURSIVE SplitFrom(_, _, _, _)
SplitFrom(str, sep, i, piece) ==
    IF i > Len(str) THEN <<piece>>
    ELSE IF str[i] = sep THEN <<piece>> \o SplitFrom(str, sep, i + 1, <<>>)
    ELSE SplitFrom(str, sep, i + 1, Append(piece, str[i]))
Split(str, sep) == SplitFrom(str, sep, 1, <<>>)

\* int(text): a ValueError unless text is a non-empty run of digits
IsInt(text) == text # <<>> /\ \A i \in 1..Len(text) : text[i] \in Digits
RECURSIVE IntFrom(_, _, _)
IntFrom(text, i, n) ==
    IF i > Len(text) THEN n ELSE IntFrom(text, i + 1, 10 * n + DigitValue(text[i]))
int(text) == IntFrom(text, 1, 0)

Max(a, b) == IF a >= b THEN a ELSE b
Min(a, b) == IF a <= b THEN a ELSE b

\* lines 32-56: what one comma-separated part adds to selected
PartIndices(part, max_index) ==
    IF part = <<>> THEN {}
    ELSE IF \E i \in 1..Len(part) : part[i] = "-"
    THEN LET ends == Split(part, "-")
         IN IF Len(ends) # 2 \/ ~IsInt(ends[1]) \/ ~IsInt(ends[2]) THEN {}
            ELSE LET start == Max(0, int(ends[1]) - 1)
                     end == Min(max_index, int(ends[2]) - 1)
                 IN IF start <= end THEN start..end ELSE {}
    ELSE IF ~IsInt(part) THEN {}
    ELSE LET index == int(part) - 1
         IN IF 0 <= index /\ index < max_index THEN {index} ELSE {}

\* sorted(list(selected))
RECURSIVE sorted(_)
sorted(set) ==
    IF set = {} THEN <<>>
    ELSE LET least == CHOOSE n \in set : \A m \in set : n <= m
         IN <<least>> \o sorted(set \ {least})

\* lines 10-58
parse_file_selection(input_str, max_index) ==
    LET parts == Split(StripWhitespace(input_str), ",")
    IN sorted(UNION {PartIndices(parts[i], max_index) : i \in 1..Len(parts)})

InitSelect ==
    /\ sel \in [pc : {"call"}, input_str : SeqsUpTo(SelChars, MaxSelLen),
                max_index : 1..MaxIndex, ret : {<<>>}]
    /\ XIdle /\ FIdle /\ AIdle /\ SIdle /\ PIdle /\ CIdle /\ TIdle /\ EIdle

\* lines 148 and 190: the call on what the user typed
SelectFiles ==
    /\ sel.pc = "call"
    /\ sel' = [sel EXCEPT !.pc = "returned",
                          !.ret = parse_file_selection(sel.input_str, sel.max_index)]
    /\ UNCHANGED <<xvars, fvars, avars, svars, pvars, cvars, tvars, evars>>

NextSelect == SelectFiles

SpecSelect == InitSelect /\ [][NextSelect]_vars

\* C40: the returned list is strictly ascending and each of its elements is
\* an index of a list of max_index files (0..max_index-1)
C40_IndicesValid ==
    sel.pc = "returned" =>
       /\ \A i \in 1..(Len(sel.ret) - 1) : sel.ret[i] < sel.ret[i + 1]
       /\ \A i \in 1..Len(sel.ret) : sel.ret[i] \in 0..(sel.max_index - 1)

----------------------------------------------------------------------------
(***************************************************************************)
(* The turn counter of Agent.run over a long run.  One cycle of the loop   *)
(* is two steps: the top of the loop up to the request (lines 428-439),    *)
(* then what the response leads to (lines 441-468).  The agent may have    *)
(* run before, so the counter starts with whatever the last run left.      *)
(***************************************************************************)
MaxTurnCycles == 13     \* cycles of the loop in one run

LeftOverTurns == {0, 3, 12}
NextPrompts == {"tool_result", "tool_call_error", "text"}

InitTurns ==
    /\ tpc = "start" /\ tturns \in LeftOverTurns /\ tprompt = Prompt("")
    /\ tsince = 0 /\ tcycles = 0 /\ treminded = FALSE
    /\ XIdle /\ FIdle /\ AIdle /\ SIdle /\ PIdle /\ CIdle /\ EIdle /\ LIdle

\* lines 348-349 and 425
TurnsSetup ==
    /\ tpc = "start"
    /\ tturns' = 0 /\ tsince' = 0
    /\ tprompt' = Prompt("task")
    /\ tpc' = "cycle"
    /\ UNCHANGED <<tcycles, treminded>>
    /\ UNCHANGED <<xvars, fvars, avars, svars, pvars, cvars, evars, lvars>>

\* lines 433-439
TurnsCycle ==
    /\ tpc = "cycle" /\ tcycles < MaxTurnCycles
    /\ tcycles' = tcycles + 1
    /\ tsince' = tsince + 1
    /\ tturns' = tturns + 1
    /\ tprompt' = Remind(tprompt, tturns')
    /\ treminded' = (tprompt' # tprompt)
    /\ tpc' = "model"
    /\ UNCHANGED <<xvars, fvars, avars, svars, pvars, cvars, evars, lvars>>

\* lines 446-468: a tool's text, an extraction error or the user's text is
\* the next prompt
TurnsContinue ==
    /\ tpc = "model"
    /\ \E text \in NextPrompts : tprompt' = Prompt(text)
    /\ tpc' = "cycle"
    /\ UNCHANGED <<tturns, tsince, tcycles, treminded>>
    /\ UNCHANGED <<xvars, fvars, avars, svars, pvars, cvars, evars, lvars>>

\* lines 441-443 with 221-235: the recap arrived
TurnsSummarize ==
    /\ tpc = "model"
    /\ tprompt' = Prompt("summary_context")
    /\ tturns' = 0 /\ tsince' = 0
    /\ tpc' = "cycle"
    /\ UNCHANGED <<tcycles, treminded>>
    /\ UNCHANGED <<xvars, fvars, avars, svars, pvars, cvars, evars, lvars>>

\* lines 441-443 with 237-238: the recap request failed, nothing is reset
TurnsRecapFails ==
    /\ tpc = "model"
    /\ tpc' = "cycle"
    /\ UNCHANGED <<tturns, tprompt, tsince, tcycles, treminded>>
    /\ UNCHANGED <<xvars, fvars, avars, svars, pvars, cvars, evars, lvars>>

\* lines 463-472: the interrupt or an empty line ends the loop
TurnsEnd ==
    /\ tpc = "model"
    /\ tpc' = "done"
    /\ UNCHANGED <<tturns, tprompt, tsince, tcycles, treminded>>
    /\ UNCHANGED <<xvars, fvars, avars, svars, pvars, cvars, evars, lvars>>

NextTurns ==
    TurnsSetup \/ TurnsCycle \/ TurnsContinue \/ TurnsSummarize \/ TurnsRecapFails
    \/ TurnsEnd

SpecTurns == InitTurns /\ [][NextTurns]_vars

\* C20: the counter is 0 when the task starts and counts the cycles since
\* the start or the last reset, one per cycle; the reminder is appended in
\* a cycle exactly when that count is over 10.
C20_TurnCounterAndReminder ==
    /\ tpc # "start" => tturns = tsince
    /\ tpc = "cycle" /\ tcycles = 0 => tturns = 0 /\ tprompt.reminders = 0
    /\ tpc = "model" => (treminded <=> tsince > TurnLimit)
    /\ tpc = "model" /\ tsince <= TurnLimit /\ tsince = tcycles => tprompt.reminders = 0

\* the 12th cycle in a row: the 11th was reminded and the loop went on
C20_Witness ==
    /\ tpc = "model" /\ tsince = 12 /\ treminded
    /\ tprompt = [text |-> "tool_result", reminders |-> 1]

====
